---- MODULE Spec2Model ----
(***************************************************************************)
(* Word <-> Markdown table converter: the table model, the Markdown parser *)
(* and generator, the HTML parser and generator, and htmlToMarkdown.       *)
(*                                                                         *)
(* A JavaScript string is a sequence of one-character strings.  A value    *)
(* that may be null is a record: the null value is [null |-> TRUE], so     *)
(* that it can be told from a table by its fields.                         *)
(***************************************************************************)
EXTENDS Integers, Sequences, FiniteSets, TLC

----------------------------------------------------------------------------
(* JavaScript string primitives used by the source *)

\* the characters matched by \s in a regular expression and removed by trim()
WhiteSpace == {" ", "\t", "\n"}

RECURSIVE TrimStart(_)
TrimStart(s) ==
  IF s # <<>> /\ Head(s) \in WhiteSpace THEN TrimStart(Tail(s)) ELSE s

RECURSIVE TrimEnd(_)
TrimEnd(s) ==
  IF s # <<>> /\ s[Len(s)] \in WhiteSpace
  THEN TrimEnd(SubSeq(s, 1, Len(s) - 1)) ELSE s

\* String.prototype.trim
Trim(s) == TrimEnd(TrimStart(s))

\* s.split(sep) for a one-character separator: always at least one part
RECURSIVE SplitFrom(_, _, _, _)
SplitFrom(s, sep, i, cur) ==
  IF i > Len(s) THEN <<cur>>
  ELSE IF s[i] = sep THEN <<cur>> \o SplitFrom(s, sep, i + 1, <<>>)
  ELSE SplitFrom(s, sep, i + 1, Append(cur, s[i]))

Split(s, sep) == SplitFrom(s, sep, 1, <<>>)

\* parts.join(sep) for a string separator sep
RECURSIVE Join(_, _)
Join(parts, sep) ==
  IF parts = <<>> THEN <<>>
  ELSE IF Len(parts) = 1 THEN parts[1]
  ELSE parts[1] \o sep \o Join(Tail(parts), sep)

\* c.repeat(n)
RECURSIVE Repeat(_, _)
Repeat(c, n) == IF n <= 0 THEN <<>> ELSE <<c>> \o Repeat(c, n - 1)

\* s.padEnd(n): spaces appended up to length n
PadEnd(s, n) == s \o Repeat(" ", n - Len(s))

Max(a, b) == IF a >= b THEN a ELSE b

\* str.replace(/c/g, replacement) for a one-character pattern
RECURSIVE ReplaceChar(_, _, _)
ReplaceChar(str, c, replacement) ==
  IF str = <<>> THEN <<>>
  ELSE IF Head(str) = c THEN replacement \o ReplaceChar(Tail(str), c, replacement)
  ELSE <<Head(str)>> \o ReplaceChar(Tail(str), c, replacement)

\* all sequences over S of length 0..n
SeqsUpTo(S, n) == UNION {[1..k -> S] : k \in 0..n}

----------------------------------------------------------------------------
(* tableModel.js *)

NullValue == [null |-> TRUE]
IsNull(v) == "null" \in DOMAIN v

createCell(content) == [content |-> content, colspan |-> 1, rowspan |-> 1]

createCellSpan(content, colspan, rowspan) ==
  [content |-> content, colspan |-> colspan, rowspan |-> rowspan]

createRow(cells, isHeader) == [isHeader |-> isHeader, cells |-> cells]

createTable(rows, alignments) == [alignments |-> alignments, rows |-> rows]

\* the sum of the colspans of a row's cells
RECURSIVE SumColspans(_)
SumColspans(cells) ==
  IF cells = <<>> THEN 0 ELSE Head(cells).colspan + SumColspans(Tail(cells))

RECURSIVE MaxColspanSum(_, _)
MaxColspanSum(rows, max) ==
  IF rows = <<>> THEN max
  ELSE LET count == SumColspans(Head(rows).cells)
       IN MaxColspanSum(Tail(rows), IF count > max THEN count ELSE max)

\* getColumnCount that counts the cells of a row: count += 1
RECURSIVE getColumnCount_CellCount(_)
getColumnCount_CellCount(table) ==
  IF table.rows = <<>> THEN 0
  ELSE Max(Len(Head(table.rows).cells),
           getColumnCount_CellCount([table EXCEPT !.rows = Tail(table.rows)]))

getColumnCount(table) == MaxColspanSum(table.rows, 0)

\* PadRow with a do-while loop: one cell is pushed before the first test
PadRow_DoWhile(row, colCount) ==
  LET currentCols == SumColspans(row.cells)
      missing == IF currentCols < colCount THEN colCount - currentCols ELSE 1
  IN [row EXCEPT !.cells = row.cells \o [i \in 1..missing |-> createCell(<<>>)]]

\* the while loop that pads one row: one empty cell per missing column
PadRow(row, colCount) ==
  LET currentCols == SumColspans(row.cells)
      missing == IF currentCols < colCount THEN colCount - currentCols ELSE 0
  IN [row EXCEPT !.cells = row.cells \o [i \in 1..missing |-> createCell(<<>>)]]

\* PadAlignments without the slice(0, colCount)
PadAlignments_NoSlice(alignments, colCount) ==
  LET n == Len(alignments)
  IN alignments \o [i \in 1..(IF n < colCount THEN colCount - n ELSE 0) |-> "left"]

\* alignments padded with 'left', then slice(0, colCount)
PadAlignments(alignments, colCount) ==
  LET n == Len(alignments)
      padded == alignments \o [i \in 1..(IF n < colCount THEN colCount - n ELSE 0) |-> "left"]
  IN SubSeq(padded, 1, colCount)

normalizeTable(table) ==
  LET colCount == getColumnCount(table)
  IN [alignments |-> PadAlignments(table.alignments, colCount),
      rows |-> [r \in 1..Len(table.rows) |-> PadRow(table.rows[r], colCount)]]

----------------------------------------------------------------------------
(* markdownToHtml.js: the Markdown parser *)

SeparatorChars == WhiteSpace \cup {":", "|", "-"}

\* SEPARATOR_RE = /^\|[\s:|-]+\|$/ tested on a line
SEPARATOR_RE(line) ==
  /\ Len(line) >= 3
  /\ line[1] = "|"
  /\ line[Len(line)] = "|"
  /\ \A i \in 2..(Len(line) - 1) : line[i] \in SeparatorChars

\* line.replace(/^\|/, '').replace(/\|$/, '')
StripPipes(line) ==
  LET a == IF line # <<>> /\ Head(line) = "|" THEN Tail(line) ELSE line
  IN IF a # <<>> /\ a[Len(a)] = "|" THEN SubSeq(a, 1, Len(a) - 1) ELSE a

StartsWith(s, c) == s # <<>> /\ s[1] = c
EndsWith(s, c) == s # <<>> /\ s[Len(s)] = c

\* AlignmentOfSegment that tests the leading colon where the source tests
\* the trailing one: if (left) return 'right'
AlignmentOfSegment_LeadingColon(seg) ==
  LET trimmed == Trim(seg)
      left == StartsWith(trimmed, ":")
      right == EndsWith(trimmed, ":")
  IN IF left /\ right THEN "center"
     ELSE IF left THEN "right"
     ELSE "left"

AlignmentOfSegment(seg) ==
  LET trimmed == Trim(seg)
      left == StartsWith(trimmed, ":")
      right == EndsWith(trimmed, ":")
  IN IF left /\ right THEN "center"
     ELSE IF right THEN "right"
     ELSE "left"

parseAlignments(separatorLine) ==
  LET segs == Split(StripPipes(separatorLine), "|")
  IN [i \in 1..Len(segs) |-> AlignmentOfSegment(segs[i])]

\* inner.split(/(?<!\\)\|/): split at every '|' not preceded by a backslash
RECURSIVE SplitUnescaped(_, _, _)
SplitUnescaped(s, i, cur) ==
  IF i > Len(s) THEN <<cur>>
  ELSE IF s[i] = "|" /\ ~(i > 1 /\ s[i - 1] = "\\")
       THEN <<cur>> \o SplitUnescaped(s, i + 1, <<>>)
  ELSE SplitUnescaped(s, i + 1, Append(cur, s[i]))

\* p.replace(/\\\|/g, '|'): every backslash-pipe pair, left to right
RECURSIVE UnescapePipes(_)
UnescapePipes(s) ==
  IF s = <<>> THEN <<>>
  ELSE IF Len(s) >= 2 /\ s[1] = "\\" /\ s[2] = "|"
       THEN <<"|">> \o UnescapePipes(SubSeq(s, 3, Len(s)))
  ELSE <<Head(s)>> \o UnescapePipes(Tail(s))

parseCells(line) ==
  LET parts == SplitUnescaped(StripPipes(line), 1, <<>>)
  IN [i \in 1..Len(parts) |-> UnescapePipes(Trim(parts[i]))]

NonEmpty(l) == Len(l) > 0

\* markdown.split('\n').map(trim).filter(length > 0)
MarkdownLines(markdown) ==
  LET raw == Split(markdown, "\n")
  IN SelectSeq([i \in 1..Len(raw) |-> Trim(raw[i])], NonEmpty)

\* the index of the first separator line, 0 when there is none
RECURSIVE FindSeparator(_, _)
FindSeparator(lines, i) ==
  IF i > Len(lines) THEN 0
  ELSE IF SEPARATOR_RE(lines[i]) THEN i
  ELSE FindSeparator(lines, i + 1)

LineToRow(line, isHeader) ==
  LET cs == parseCells(line)
  IN createRow([i \in 1..Len(cs) |-> createCell(cs[i])], isHeader)

\* parseMarkdownTable with the line-count test off by one: lines.length < 1
parseMarkdownTable_OneLine(markdown) ==
  LET lines == MarkdownLines(markdown)
      separatorIndex == FindSeparator(lines, 1)
  IN IF Len(lines) < 1 THEN NullValue
     ELSE IF separatorIndex = 0 THEN NullValue
     ELSE LET alignments == parseAlignments(lines[separatorIndex])
              rows == [i \in 1..(Len(lines) - 1) |->
                         IF i < separatorIndex
                         THEN LineToRow(lines[i], TRUE)
                         ELSE LineToRow(lines[i + 1], FALSE)]
          IN normalizeTable(createTable(rows, alignments))

parseMarkdownTable(markdown) ==
  LET lines == MarkdownLines(markdown)
      separatorIndex == FindSeparator(lines, 1)
  IN IF Len(lines) < 2 THEN NullValue
     ELSE IF separatorIndex = 0 THEN NullValue
     ELSE LET alignments == parseAlignments(lines[separatorIndex])
              rows == [i \in 1..(Len(lines) - 1) |->
                         IF i < separatorIndex
                         THEN LineToRow(lines[i], TRUE)
                         ELSE LineToRow(lines[i + 1], FALSE)]
          IN normalizeTable(createTable(rows, alignments))

----------------------------------------------------------------------------
(* markdownToHtml.js: the HTML generator *)

\* alignStyle: the value of the text-align declaration it returns
alignStyle(alignment) ==
  IF alignment = "center" THEN "center"
  ELSE IF alignment = "right" THEN "right"
  ELSE "left"

\* the characters of an entity
Entity(name) ==
  CASE name = "amp" -> <<"&", "a", "m", "p", ";">>
    [] name = "lt" -> <<"&", "l", "t", ";">>
    [] name = "gt" -> <<"&", "g", "t", ";">>
    [] name = "quot" -> <<"&", "q", "u", "o", "t", ";">>

\* escapeHtml with the replace of '&' as the last call
escapeHtml_AmpLast(str) ==
  ReplaceChar(ReplaceChar(ReplaceChar(ReplaceChar(str,
    "<", Entity("lt")), ">", Entity("gt")), "\"", Entity("quot")), "&", Entity("amp"))

\* the four replace calls, in the source's order: '&' first
escapeHtml(str) ==
  ReplaceChar(ReplaceChar(ReplaceChar(ReplaceChar(str,
    "&", Entity("amp")), "<", Entity("lt")), ">", Entity("gt")), "\"", Entity("quot"))

\* table.alignments[i] || 'left', i counted from 1
AlignmentAt(table, i) ==
  IF i <= Len(table.alignments) THEN table.alignments[i] ELSE "left"

\* one <tr> of the markup: a <th> or <td> per cell, with its style and text
RowMarkup(table, row, tag) ==
  [i \in 1..Len(row.cells) |->
     [tag |-> tag,
      textAlign |-> alignStyle(AlignmentAt(table, i)),
      text |-> escapeHtml(row.cells[i].content)]]

IsHeaderRow(r) == r.isHeader
IsDataRow(r) == ~r.isHeader

\* tableModelToHtml without the filter of the data rows: the header rows are
\* emitted again in the body
tableModelToHtml_UnfilteredBody(table) ==
  LET headerRows == SelectSeq(table.rows, IsHeaderRow)
  IN [thead |-> [r \in 1..Len(headerRows) |-> RowMarkup(table, headerRows[r], "th")],
      tbody |-> [r \in 1..Len(table.rows) |-> RowMarkup(table, table.rows[r], "td")]]

\* tableModelToHtml with the header rows emitted last row first
tableModelToHtml_HeadReversed(table) ==
  LET headerRows == SelectSeq(table.rows, IsHeaderRow)
      dataRows == SelectSeq(table.rows, IsDataRow)
  IN [thead |-> [r \in 1..Len(headerRows) |->
                   RowMarkup(table, headerRows[Len(headerRows) + 1 - r], "th")],
      tbody |-> [r \in 1..Len(dataRows) |-> RowMarkup(table, dataRows[r], "td")]]

\* The markup string as its element tree: the rows of <thead> and of <tbody>
\* in order; a section with no rows is not emitted.
tableModelToHtml(table) ==
  LET headerRows == SelectSeq(table.rows, IsHeaderRow)
      dataRows == SelectSeq(table.rows, IsDataRow)
  IN [thead |-> [r \in 1..Len(headerRows) |-> RowMarkup(table, headerRows[r], "th")],
      tbody |-> [r \in 1..Len(dataRows) |-> RowMarkup(table, dataRows[r], "td")]]

markdownToHtml(markdown) ==
  LET table == parseMarkdownTable(markdown)
  IN IF IsNull(table) THEN NullValue ELSE [html |-> tableModelToHtml(table)]

----------------------------------------------------------------------------
(* The browser's DOMParser on the generated markup (roundTrip.test.js) *)

HasPrefix(s, p) == Len(s) >= Len(p) /\ SubSeq(s, 1, Len(p)) = p

\* character references of a text node, decoded once, left to right
RECURSIVE DecodeEntities(_)
DecodeEntities(s) ==
  IF s = <<>> THEN <<>>
  ELSE IF HasPrefix(s, Entity("amp"))
       THEN <<"&">> \o DecodeEntities(SubSeq(s, Len(Entity("amp")) + 1, Len(s)))
  ELSE IF HasPrefix(s, Entity("lt"))
       THEN <<"<">> \o DecodeEntities(SubSeq(s, Len(Entity("lt")) + 1, Len(s)))
  ELSE IF HasPrefix(s, Entity("gt"))
       THEN <<">">> \o DecodeEntities(SubSeq(s, Len(Entity("gt")) + 1, Len(s)))
  ELSE IF HasPrefix(s, Entity("quot"))
       THEN <<"\"">> \o DecodeEntities(SubSeq(s, Len(Entity("quot")) + 1, Len(s)))
  ELSE <<Head(s)>> \o DecodeEntities(Tail(s))

\* A cell element: its text, its colspan, rowspan and align attributes ("" when
\* absent) and the text-align of its style ("" when unset).
CellElement(textContent, colspan, rowspan, align, textAlign) ==
  [textContent |-> textContent, colspan |-> colspan, rowspan |-> rowspan,
   align |-> align, textAlign |-> textAlign]

\* A row element: inThead says whether it lies in the table's thead.
RowElement(inThead, cells) == [inThead |-> inThead, cells |-> cells]

ParseRowMarkup(rowMarkup, inThead) ==
  RowElement(inThead,
    [i \in 1..Len(rowMarkup) |->
       CellElement(DecodeEntities(rowMarkup[i].text), "", "", "", rowMarkup[i].textAlign)])

\* parseFromString(html, 'text/html').querySelector('table'): the table
\* element is its row elements in document order
ParseTableMarkup(html) ==
  [trs |-> [r \in 1..Len(html.thead) |-> ParseRowMarkup(html.thead[r], TRUE)]
           \o [r \in 1..Len(html.tbody) |-> ParseRowMarkup(html.tbody[r], FALSE)]]

----------------------------------------------------------------------------
(* htmlToMarkdown.js: the HTML parser *)

\* parseInt(attr || '1', 10) for the attribute values of the model
ParseInt(attr) ==
  CASE attr = "" -> 1
    [] attr = "0" -> 0
    [] attr = "1" -> 1
    [] attr = "2" -> 2
    [] attr = "3" -> 3
    [] attr = "4" -> 4

\* align.toLowerCase() for the attribute values of the model
ToLowerCase(align) ==
  CASE align = "CENTER" -> "center"
    [] align = "RIGHT" -> "right"
    [] align = "LEFT" -> "left"
    [] OTHER -> align

\* replace(/\s+/g, ' '): every run of whitespace becomes one space
RECURSIVE CollapseWhitespace(_)
CollapseWhitespace(s) ==
  IF s = <<>> THEN <<>>
  ELSE IF Head(s) \in WhiteSpace
       THEN <<" ">> \o CollapseWhitespace(TrimStart(s))
  ELSE <<Head(s)>> \o CollapseWhitespace(Tail(s))

\* rowspanTracker[colIdx] && rowspanTracker[colIdx].remaining, 0 when unset
Remaining(rowspanTracker, colIdx) ==
  IF colIdx + 1 <= Len(rowspanTracker) THEN rowspanTracker[colIdx + 1] ELSE 0

\* rowspanTracker[colIdx] = { remaining }
SetRemaining(rowspanTracker, colIdx, remaining) ==
  [i \in 1..Max(Len(rowspanTracker), colIdx + 1) |->
     IF i = colIdx + 1 THEN remaining
     ELSE IF i <= Len(rowspanTracker) THEN rowspanTracker[i] ELSE 0]

\* RowIsHeader without treatFirstAsHeader: theadRows.has(tr) || rowIdx === 0
RowIsHeader_FirstAlways(tableEl, rowIdx) ==
  tableEl.trs[rowIdx + 1].inThead \/ rowIdx = 0

\* theadRows.has(tr) || (treatFirstAsHeader && rowIdx === 0)
RowIsHeader(tableEl, rowIdx) ==
  LET treatFirstAsHeader == \A r \in 1..Len(tableEl.trs) : ~tableEl.trs[r].inThead
  IN tableEl.trs[rowIdx + 1].inThead \/ (treatFirstAsHeader /\ rowIdx = 0)

\* The locals of htmlTableToModel before its first row
ParserInit ==
  [rows |-> <<>>, alignments |-> <<>>, alignmentsSet |-> FALSE,
   rowspanTracker |-> <<>>, rowIdx |-> 0,
   cells |-> <<>>, colIdx |-> 0, cellElIdx |-> 0]

CellElements(tableEl, ps) == tableEl.trs[ps.rowIdx + 1].cells

\* the while condition's second half and the if of the carry-over branch
CarryOverOwed(ps) == Remaining(ps.rowspanTracker, ps.colIdx) > 0

\* the carry-over branch: an empty cell, no cell element consumed
CarryOverStep(ps) ==
  [ps EXCEPT !.cells = Append(ps.cells, createCell(<<>>)),
             !.rowspanTracker = SetRemaining(ps.rowspanTracker, ps.colIdx,
                                  Remaining(ps.rowspanTracker, ps.colIdx) - 1),
             !.colIdx = ps.colIdx + 1]

\* the tracker after the colspan loop of a cell with this rowspan
RECURSIVE TrackSpan(_, _, _, _)
TrackSpan(rowspanTracker, colIdx, colspan, rowspan) ==
  IF colspan <= 0 \/ rowspan <= 1 THEN rowspanTracker
  ELSE TrackSpan(SetRemaining(rowspanTracker, colIdx, rowspan - 1),
                 colIdx + 1, colspan - 1, rowspan)

\* ConsumeCellStep with the content pushed for every c, not only for c === 0
ConsumeCellStep_ContentInEveryCell(ps, tableEl) ==
  LET cellEl == CellElements(tableEl, ps)[ps.cellElIdx + 1]
      content == Trim(CollapseWhitespace(cellEl.textContent))
      colspan == ParseInt(cellEl.colspan)
      rowspan == ParseInt(cellEl.rowspan)
      align == IF cellEl.align # "" THEN cellEl.align ELSE cellEl.textAlign
      isHeader == RowIsHeader(tableEl, ps.rowIdx)
  IN [ps EXCEPT
        !.cells = ps.cells \o [c \in 1..colspan |-> createCell(content)],
        !.rowspanTracker = TrackSpan(ps.rowspanTracker, ps.colIdx, colspan, rowspan),
        !.alignments =
            IF isHeader /\ ~ps.alignmentsSet
            THEN ps.alignments \o
                   [c \in 1..colspan |-> IF align # "" THEN ToLowerCase(align) ELSE "left"]
            ELSE ps.alignments,
        !.colIdx = ps.colIdx + colspan,
        !.cellElIdx = ps.cellElIdx + 1]

\* one cell element consumed: expanded into colspan cells
ConsumeCellStep(ps, tableEl) ==
  LET cellEl == CellElements(tableEl, ps)[ps.cellElIdx + 1]
      content == Trim(CollapseWhitespace(cellEl.textContent))
      colspan == ParseInt(cellEl.colspan)
      rowspan == ParseInt(cellEl.rowspan)
      align == IF cellEl.align # "" THEN cellEl.align ELSE cellEl.textAlign
      isHeader == RowIsHeader(tableEl, ps.rowIdx)
  IN [ps EXCEPT
        !.cells = ps.cells \o
                    [c \in 1..colspan |-> createCell(IF c = 1 THEN content ELSE <<>>)],
        !.rowspanTracker = TrackSpan(ps.rowspanTracker, ps.colIdx, colspan, rowspan),
        !.alignments =
            IF isHeader /\ ~ps.alignmentsSet
            THEN ps.alignments \o
                   [c \in 1..colspan |-> IF align # "" THEN ToLowerCase(align) ELSE "left"]
            ELSE ps.alignments,
        !.colIdx = ps.colIdx + colspan,
        !.cellElIdx = ps.cellElIdx + 1]

\* the loop after the row's cells: remaining carry-overs at the end
RECURSIVE DrainCarryOvers(_)
DrainCarryOvers(ps) ==
  IF CarryOverOwed(ps) THEN DrainCarryOvers(CarryOverStep(ps)) ELSE ps

\* the end of the row: drain, freeze the alignments, push the row
EndRowStep(ps, tableEl) ==
  LET d == DrainCarryOvers(ps)
      isHeader == RowIsHeader(tableEl, ps.rowIdx)
  IN [d EXCEPT !.alignmentsSet = d.alignmentsSet \/ isHeader,
               !.rows = Append(d.rows, createRow(d.cells, isHeader)),
               !.rowIdx = d.rowIdx + 1,
               !.cells = <<>>, !.colIdx = 0, !.cellElIdx = 0]

\* one step of the row loop, in the order the while loop takes them
ParserStep(ps, tableEl) ==
  IF CarryOverOwed(ps) THEN CarryOverStep(ps)
  ELSE IF ps.cellElIdx < Len(CellElements(tableEl, ps)) THEN ConsumeCellStep(ps, tableEl)
  ELSE EndRowStep(ps, tableEl)

ParserDone(ps, tableEl) == ps.rowIdx >= Len(tableEl.trs)

RECURSIVE RunParser(_, _)
RunParser(ps, tableEl) ==
  IF ParserDone(ps, tableEl) THEN ps ELSE RunParser(ParserStep(ps, tableEl), tableEl)

\* the return statement
ParserResult(ps) == normalizeTable(createTable(ps.rows, ps.alignments))

htmlTableToModel(tableEl) ==
  IF Len(tableEl.trs) = 0 THEN NullValue
  ELSE ParserResult(RunParser(ParserInit, tableEl))

----------------------------------------------------------------------------
(* htmlToMarkdown.js: the Markdown generator *)

\* content.replace(/\|/g, '\\|')
\* escapeMarkdownCell that leaves the pipes as they are
escapeMarkdownCell_Verbatim(content) == content

escapeMarkdownCell(content) == ReplaceChar(content, "|", <<"\\", "|">>)

\* ColumnWidth that measures the content, not the escaped content
RECURSIVE ColumnWidth_Unescaped(_, _, _)
ColumnWidth_Unescaped(table, i, r) ==
  IF r = 0 THEN 3
  ELSE LET row == table.rows[r]
           w == ColumnWidth_Unescaped(table, i, r - 1)
       IN IF i <= Len(row.cells)
          THEN Max(w, Len(row.cells[i].content))
          ELSE w

\* widths[i] after the loop over the rows [0, r]: at least 3
RECURSIVE ColumnWidth(_, _, _)
ColumnWidth(table, i, r) ==
  IF r = 0 THEN 3
  ELSE LET row == table.rows[r]
           w == ColumnWidth(table, i, r - 1)
       IN IF i <= Len(row.cells)
          THEN Max(w, Len(escapeMarkdownCell(row.cells[i].content)))
          ELSE w

Widths(table) ==
  [i \in 1..Len(table.alignments) |-> ColumnWidth(table, i, Len(table.rows))]

\* one rendered row: '|' + cells.join('|') + '|'
RowLine(row, widths) ==
  LET cells == [i \in 1..Len(widths) |->
                  LET content == IF i <= Len(row.cells)
                                 THEN escapeMarkdownCell(row.cells[i].content)
                                 ELSE <<>>
                  IN <<" ">> \o PadEnd(content, widths[i]) \o <<" ">>]
  IN <<"|">> \o Join(cells, <<"|">>) \o <<"|">>

SeparatorSegment(align, w) ==
  IF align = "center" THEN <<":">> \o Repeat("-", w) \o <<":">>
  ELSE IF align = "right" THEN Repeat("-", w) \o <<"-", ":">>
  ELSE Repeat("-", w + 2)

SeparatorLine(table, widths) ==
  LET separators == [i \in 1..Len(widths) |->
                       SeparatorSegment(AlignmentAt(table, i), widths[i])]
  IN <<"|">> \o Join(separators, <<"|">>) \o <<"|">>

\* tableModelToMarkdown without the promotion of the first row
tableModelToMarkdown_NoPromotion(table) ==
  IF IsNull(table) THEN <<>>
  ELSE IF Len(table.rows) = 0 THEN <<>>
  ELSE
    LET widths == Widths(table)
        headerRows == SelectSeq(table.rows, IsHeaderRow)
        dataRows == SelectSeq(table.rows, IsDataRow)
        lines == [r \in 1..Len(headerRows) |-> RowLine(headerRows[r], widths)]
                 \o <<SeparatorLine(table, widths)>>
                 \o [r \in 1..Len(dataRows) |-> RowLine(dataRows[r], widths)]
    IN Join(lines, <<"\n">>)

tableModelToMarkdown(table) ==
  IF IsNull(table) THEN <<>>
  ELSE IF Len(table.rows) = 0 THEN <<>>
  ELSE
    LET widths == Widths(table)
        headerRows == SelectSeq(table.rows, IsHeaderRow)
        dataRows == SelectSeq(table.rows, IsDataRow)
        actualHeaders == IF Len(headerRows) = 0 THEN <<table.rows[1]>> ELSE headerRows
        actualData == IF Len(headerRows) = 0 THEN Tail(table.rows) ELSE dataRows
        lines == [r \in 1..Len(actualHeaders) |-> RowLine(actualHeaders[r], widths)]
                 \o <<SeparatorLine(table, widths)>>
                 \o [r \in 1..Len(actualData) |-> RowLine(actualData[r], widths)]
    IN Join(lines, <<"\n">>)

----------------------------------------------------------------------------
(* htmlSanitizer.js *)

\* style.match(/text-align:\s*(left|center|right)/i), lower-cased; "" when
\* there is no match
StyleAlignMatch(textAlign) ==
  IF ToLowerCase(textAlign) \in {"left", "center", "right"}
  THEN ToLowerCase(textAlign) ELSE ""

\* the loop over the table's elements, for a cell: style removed, alignment
\* kept as the align attribute
SanitizeCell(el) ==
  LET align == IF el.align # "" THEN el.align ELSE StyleAlignMatch(el.textAlign)
  IN [el EXCEPT !.align = align, !.textAlign = ""]

SanitizeRow(tr) ==
  [tr EXCEPT !.cells = [i \in 1..Len(tr.cells) |-> SanitizeCell(tr.cells[i])]]

\* The parsed document is the sequence of its table elements.  The function
\* returns the first table element, cleaned, or null.
sanitizeWordHtml(doc) ==
  IF Len(doc.tables) = 0 THEN NullValue
  ELSE LET table == doc.tables[1]
       IN [trs |-> [r \in 1..Len(table.trs) |-> SanitizeRow(table.trs[r])]]

----------------------------------------------------------------------------
(* htmlToMarkdown.js: htmlToMarkdown *)

Undefined == [undefined |-> TRUE]
IsUndefined(v) == "undefined" \in DOMAIN v

\* object[name], undefined when the object has no such property
GetProperty(object, name) ==
  IF name \in DOMAIN object THEN object[name] ELSE Undefined

\* an uncaught exception leaving the function
Thrown(error) == [thrown |-> error]
IsThrown(v) == "thrown" \in DOMAIN v

\* `Found ${tableCount} tables - only the first was converted.`
TableCountWarning(tableCount) == [warning |-> "Found tables", count |-> tableCount]

\* 'Merged cells were expanded into separate cells.'
MergedCellsWarning == [warning |-> "Merged cells", count |-> 0]

\* all td and th elements of the table, in document order
RECURSIVE AllCellElements(_)
AllCellElements(trs) ==
  IF trs = <<>> THEN <<>> ELSE Head(trs).cells \o AllCellElements(Tail(trs))

\* the loop that looks for a merged cell
HasMergedCell(tableEl) ==
  LET cells == AllCellElements(tableEl.trs)
  IN \E i \in 1..Len(cells) :
       ParseInt(cells[i].colspan) > 1 \/ ParseInt(cells[i].rowspan) > 1

htmlToMarkdown(doc) ==
  LET result == sanitizeWordHtml(doc)
  IN IF IsNull(result) THEN NullValue
     ELSE
       LET tableEl == GetProperty(result, "table")
           tableCount == GetProperty(result, "tableCount")
       IN \* htmlTableToModel(undefined) reads undefined.querySelectorAll
          IF IsUndefined(tableEl) THEN Thrown("TypeError")
          ELSE
            LET model == htmlTableToModel(tableEl)
            IN IF IsNull(model) THEN NullValue
               ELSE
                 LET countWarning ==
                       IF ~IsUndefined(tableCount) /\ tableCount > 1
                       THEN <<TableCountWarning(tableCount)>> ELSE <<>>
                     mergedWarning ==
                       IF HasMergedCell(tableEl) THEN <<MergedCellsWarning>> ELSE <<>>
                 IN [markdown |-> tableModelToMarkdown(model),
                     warnings |-> countWarning \o mergedWarning]

----------------------------------------------------------------------------
(* The page script: output modes, toast, warnings *)

\* innerHTML = ''
EmptyMarkup == [empty |-> TRUE]

\* The page before any event: the elements as the script's clearOutput,
\* showWarnings([]) and the toast's timeout leave them.  awaiting holds the
\* click handlers that are suspended at an await, with their locals.  cleared
\* is a history of the events: the Clear handler has run and no paste and no
\* conversion has started since.
PageInit ==
  [inputValue |-> <<>>,
   outputValue |-> <<>>, outputHidden |-> FALSE,
   previewContent |-> EmptyMarkup, previewHidden |-> TRUE,
   outputLabel |-> "Output",
   lastPastedHtml |-> NullValue, lastGeneratedHtml |-> NullValue,
   toast |-> [text |-> "", type |-> "", hidden |-> TRUE], toastTimeout |-> FALSE,
   warnings |-> <<>>, warningsHidden |-> TRUE,
   awaiting |-> <<>>,
   cleared |-> FALSE]

showTextOutput(pg, text) ==
  [pg EXCEPT !.lastGeneratedHtml = NullValue,
             !.outputValue = text, !.outputHidden = FALSE,
             !.previewHidden = TRUE,
             !.outputLabel = "Output"]

showPreviewOutput(pg, markup) ==
  [pg EXCEPT !.lastGeneratedHtml = markup,
             !.outputHidden = TRUE,
             !.previewContent = markup, !.previewHidden = FALSE,
             !.outputLabel = "Preview"]

clearOutput(pg) ==
  [pg EXCEPT !.lastGeneratedHtml = NullValue,
             !.outputValue = <<>>, !.outputHidden = FALSE,
             !.previewContent = EmptyMarkup, !.previewHidden = TRUE,
             !.outputLabel = "Output"]

\* the message shown, and the timeout that hides it set again
showToast(pg, message, type) ==
  [pg EXCEPT !.toast = [text |-> message, type |-> type, hidden |-> FALSE],
             !.toastTimeout = TRUE]

showWarnings(pg, warnings) ==
  IF Len(warnings) = 0
  THEN [pg EXCEPT !.warnings = <<>>, !.warningsHidden = TRUE]
  ELSE [pg EXCEPT !.warnings = warnings, !.warningsHidden = FALSE]

\* /<table[\s>]/i.test(htmlString) on the markup of a document
containsTable(document) == Len(document.tables) > 0

\* the document of a text without markup
DocumentOf(text) == [tables |-> <<>>]

----------------------------------------------------------------------------
(* State *)

VARIABLES
  step,     \* the call that comes next
  md,       \* Markdown text: typed in, or generated
  html,     \* markup generated by tableModelToHtml
  tableEl,  \* a table element of the DOM
  table,    \* a table model handed to normalizeTable or to a generator
  model1,   \* the table model of the first parse
  model2,   \* the table model recovered at the end of a round trip
  ps,       \* the locals of htmlTableToModel while it walks the rows
  doc,      \* the parsed document handed to htmlToMarkdown
  result,   \* what htmlToMarkdown returned or threw
  parsed,   \* parseCells applied to each line of generated Markdown
  page      \* the page: its elements, the script's variables, the awaits

vars == <<step, md, html, tableEl, table, model1, model2, ps, doc, result, parsed, page>>

NoElement == [trs |-> <<>>]
NoDocument == [tables |-> <<>>]
NoTable == createTable(<<>>, <<>>)

\* nothing has been computed yet
NoOutput ==
  /\ html = NullValue
  /\ model1 = NullValue
  /\ model2 = NullValue
  /\ ps = ParserInit
  /\ result = NullValue
  /\ parsed = <<>>
  /\ page = PageInit

\* all sequences of rows, each row a non-empty sequence over cells, with at
\* most n cells in all
RECURSIVE RowsWithCells(_, _)
RowsWithCells(cells, n) ==
  {<<>>} \cup UNION {{<<row>> \o rest : row \in [1..k -> cells],
                                        rest \in RowsWithCells(cells, n - k)} : k \in 1..n}

----------------------------------------------------------------------------
(* Round trips (roundTrip.test.js) *)

\* bounds of the Markdown texts of the round trip
RtLineLen == 3
RtSepLen == 4
RtDataLen == 2
\* bounds of the table elements of the round trip
RtCells == 3
RtTextLen == 1

RtLineChars == {"&", "\t", "|"}
RtSepChars == {"|", "-", ":"}
RtTextChars == {"a", "-"}
RtAligns == {"", "center", "right"}

\* the non-empty lines of at most n characters
RtLines(n) == SeqsUpTo(RtLineChars, n) \ {<<>>}
RtSeparatorLines(n) == {l \in SeqsUpTo(RtSepChars, n) : SEPARATOR_RE(l)}

\* a header line, a separator line and at most one data line
RtMarkdowns(lineLen, sepLen, dataLen) ==
  {Join(<<h, sep>>, <<"\n">>) : h \in RtLines(lineLen), sep \in RtSeparatorLines(sepLen)}
  \cup {Join(<<h, sep, d>>, <<"\n">>) :
          h \in RtLines(lineLen), sep \in RtSeparatorLines(sepLen), d \in RtLines(dataLen)}

RtCellElements(textLen) ==
  {CellElement(t, "", "", a, "") : t \in SeqsUpTo(RtTextChars, textLen), a \in RtAligns}

\* the rows of a table, each in the thead or not
RtRowElements(rows) ==
  {[r \in 1..Len(rows) |-> RowElement(inThead[r], rows[r])] :
     inThead \in [1..Len(rows) -> BOOLEAN]}

RtTableElements(n, textLen) ==
  {[trs |-> trs] : trs \in UNION {RtRowElements(rows) :
                                    rows \in RowsWithCells(RtCellElements(textLen), n)}}

InitMd ==
  /\ step = "md:parseMarkdownTable"
  /\ md \in RtMarkdowns(RtLineLen, RtSepLen, RtDataLen)
  /\ tableEl = NoElement /\ table = NoTable /\ doc = NoDocument
  /\ NoOutput

InitHtml ==
  /\ step = "html:htmlTableToModel"
  /\ tableEl \in RtTableElements(RtCells, RtTextLen)
  /\ md = <<>> /\ table = NoTable /\ doc = NoDocument
  /\ NoOutput

Init == InitMd \/ InitHtml

\* Markdown -> HTML -> model: const model1 = parseMarkdownTable(md)
MdParseMarkdownTable ==
  /\ step = "md:parseMarkdownTable"
  /\ model1' = parseMarkdownTable(md)
  /\ step' = IF IsNull(model1') THEN "md:null" ELSE "md:tableModelToHtml"
  /\ UNCHANGED <<md, html, tableEl, table, model2, ps, doc, result, parsed, page>>

\* const html = tableModelToHtml(model1)
MdTableModelToHtml ==
  /\ step = "md:tableModelToHtml"
  /\ html' = tableModelToHtml(model1)
  /\ step' = "md:querySelector"
  /\ UNCHANGED <<md, tableEl, table, model1, model2, ps, doc, result, parsed, page>>

\* const tableEl = parser.parseFromString(html, 'text/html').querySelector('table')
MdQuerySelector ==
  /\ step = "md:querySelector"
  /\ tableEl' = ParseTableMarkup(html)
  /\ step' = "md:htmlTableToModel"
  /\ UNCHANGED <<md, html, table, model1, model2, ps, doc, result, parsed, page>>

\* const model2 = htmlTableToModel(tableEl)
MdHtmlTableToModel ==
  /\ step = "md:htmlTableToModel"
  /\ model2' = htmlTableToModel(tableEl)
  /\ step' = "md:done"
  /\ UNCHANGED <<md, html, tableEl, table, model1, ps, doc, result, parsed, page>>

\* HTML -> Markdown -> model: const model1 = htmlTableToModel(tableEl)
HtmlHtmlTableToModel ==
  /\ step = "html:htmlTableToModel"
  /\ model1' = htmlTableToModel(tableEl)
  /\ step' = IF IsNull(model1') THEN "html:null" ELSE "html:tableModelToMarkdown"
  /\ UNCHANGED <<md, html, tableEl, table, model2, ps, doc, result, parsed, page>>

\* const md = tableModelToMarkdown(model1)
HtmlTableModelToMarkdown ==
  /\ step = "html:tableModelToMarkdown"
  /\ md' = tableModelToMarkdown(model1)
  /\ step' = "html:parseMarkdownTable"
  /\ UNCHANGED <<html, tableEl, table, model1, model2, ps, doc, result, parsed, page>>

\* const model2 = parseMarkdownTable(md)
HtmlParseMarkdownTable ==
  /\ step = "html:parseMarkdownTable"
  /\ model2' = parseMarkdownTable(md)
  /\ step' = "html:done"
  /\ UNCHANGED <<md, html, tableEl, table, model1, ps, doc, result, parsed, page>>

NextMd ==
  \/ MdParseMarkdownTable
  \/ MdTableModelToHtml
  \/ MdQuerySelector
  \/ MdHtmlTableToModel

NextHtml ==
  \/ HtmlHtmlTableToModel
  \/ HtmlTableModelToMarkdown
  \/ HtmlParseMarkdownTable

Next == NextMd \/ NextHtml

\* both round trips
Spec == Init /\ [][Next]_vars

\* the Markdown -> HTML -> model round trip alone
SpecMd == InitMd /\ [][NextMd]_vars

----------------------------------------------------------------------------
(* Round-trip claims *)

\* m2 has the rows of m1, the cells of each row, and in each cell the content
\* of m1, with its whitespace runs collapsed when collapsed is TRUE
SameShapeAndContentAs(m1, m2, collapsed) ==
  /\ ~IsNull(m2)
  /\ Len(m2.rows) = Len(m1.rows)
  /\ \A r \in 1..Len(m1.rows) :
       /\ r <= Len(m2.rows)
       /\ Len(m2.rows[r].cells) = Len(m1.rows[r].cells)
       /\ \A c \in 1..Len(m1.rows[r].cells) :
            /\ c <= Len(m2.rows[r].cells)
            /\ m2.rows[r].cells[c].content =
                 IF collapsed THEN CollapseWhitespace(m1.rows[r].cells[c].content)
                 ELSE m1.rows[r].cells[c].content

SameShapeAndContent(m1, m2) == SameShapeAndContentAs(m1, m2, FALSE)

\* every center or right alignment of m1 is the alignment of m2 at that column
SameCenterRight(m1, m2) ==
  \A i \in 1..Len(m1.alignments) :
    m1.alignments[i] \in {"center", "right"} =>
      /\ ~IsNull(m2)
      /\ i <= Len(m2.alignments)
      /\ m2.alignments[i] = m1.alignments[i]

\* some cell of m holds this content
HasContent(m, content) ==
  \E r \in 1..Len(m.rows) : \E c \in 1..Len(m.rows[r].cells) :
    m.rows[r].cells[c].content = content

C2_HtmlRoundTrip ==
  step = "html:done" => SameShapeAndContent(model1, model2)

\* C3: center and right alignments are the same after either full cycle.
C3_AlignmentRoundTrip ==
  /\ step = "md:done" => SameCenterRight(model1, model2)
  /\ step = "html:done" => SameCenterRight(model1, model2)

----------------------------------------------------------------------------
(* parseMarkdownTable on every short text *)

\* the longest Markdown text
MdLen == 5

MdChars == {"|", "-", ":", " ", "a", "\n"}

InitParse ==
  /\ step = "parse:parseMarkdownTable"
  /\ md \in SeqsUpTo(MdChars, MdLen)
  /\ tableEl = NoElement /\ table = NoTable /\ doc = NoDocument
  /\ NoOutput

\* const table = parseMarkdownTable(text)
ParseMarkdownTable ==
  /\ step = "parse:parseMarkdownTable"
  /\ model1' = parseMarkdownTable(md)
  /\ step' = "parse:done"
  /\ UNCHANGED <<md, html, tableEl, table, model2, ps, doc, result, parsed, page>>

SpecParse == InitParse /\ [][ParseMarkdownTable]_vars

\* the lines of a text that are not blank, trimmed
NonBlankLines(text) ==
  LET raw == Split(text, "\n")
  IN SelectSeq([i \in 1..Len(raw) |-> Trim(raw[i])], NonEmpty)

\* a line that starts and ends with '|' and has only '-', ':', '|' and
\* whitespace between the two; atLeast is the least number of characters
\* between them
PipeDelimitedSeparator(line, atLeast) ==
  /\ Len(line) >= 2 + atLeast
  /\ Head(line) = "|"
  /\ line[Len(line)] = "|"
  /\ \A i \in 2..(Len(line) - 1) : line[i] \in {"-", ":", "|", " ", "\t"}

\* a table: alignments and rows, nothing else
IsTable(v) == DOMAIN v = {"alignments", "rows"}

\* the outcome the claim gives for a text, with that reading of a separator
ParseOutcomeAsClaimed(text, v, atLeast) ==
  LET lines == NonBlankLines(text)
      noTable == \/ Len(lines) < 2
                 \/ ~\E i \in 1..Len(lines) : PipeDelimitedSeparator(lines[i], atLeast)
  IN IF noTable THEN IsNull(v) ELSE IsTable(v)

\* C5 as stated: parseMarkdownTable returns null when the text has fewer than
\* 2 non-blank lines or no trimmed line that starts and ends with '|' with
\* only '-', ':', '|' and whitespace in between, and a table otherwise.
C5_ParseOutcomes ==
  step = "parse:done" => ParseOutcomeAsClaimed(md, model1, 0)

\* C5 as amended: the separator line has at least one character between its
\* first and its last '|'.
C5_ParseOutcomesNonEmptySeparator ==
  step = "parse:done" => ParseOutcomeAsClaimed(md, model1, 1)

\* both outcomes happen: the text 'a' / '|-|' gives a table, and a text with
\* two lines and no separator gives null
C5_Witness ==
  /\ step = "parse:done"
  /\ md = <<"a", "\n", "|", "-", "|">>
  /\ IsTable(model1)
  /\ Len(model1.rows) = 1

----------------------------------------------------------------------------
(* tableModelToMarkdown, then parseCells on each rendered row *)

\* the longest cell content, and the most columns
GenLen == 3
GenCols == 2

GenChars == {"a", "|", "\\", " "}

\* contents without leading or trailing whitespace
GenContents(n) == {c \in SeqsUpTo(GenChars, n) : Trim(c) = c}

\* the data row below the header: none, or one whose cells are wider than
\* every header cell, so that the header cells are padded
GenDataRows(cols) ==
  {<<>>, <<createRow([i \in 1..cols |-> createCell(<<"a", "a", "a", "a">>)], FALSE)>>}

\* a header row with these contents, above that data row
GenTable(contents, data) ==
  normalizeTable(createTable(
    <<createRow([i \in 1..Len(contents) |-> createCell(contents[i])], TRUE)>> \o data,
    [i \in 1..Len(contents) |-> "left"]))

\* what the other cells of the header hold
GenFillers == {<<>>, <<"\\", "|">>}

\* every content of the bound at one position of the header, in turn
InitGenerate ==
  /\ step = "gen:tableModelToMarkdown"
  /\ \E cols \in 1..GenCols, p \in 1..GenCols :
       /\ p <= cols
       /\ \E content \in GenContents(GenLen), fillers \in [1..cols -> GenFillers],
             data \in GenDataRows(cols) :
            table = GenTable([fillers EXCEPT ![p] = content], data)
  /\ md = <<>> /\ tableEl = NoElement /\ doc = NoDocument
  /\ NoOutput

\* const md = tableModelToMarkdown(table)
GenTableModelToMarkdown ==
  /\ step = "gen:tableModelToMarkdown"
  /\ md' = tableModelToMarkdown(table)
  /\ step' = "gen:parseCells"
  /\ UNCHANGED <<html, tableEl, table, model1, model2, ps, doc, result, parsed, page>>

\* the rendered line of each row of the table: the separator line follows
\* the header rows
RowLines(markdown, t) ==
  LET lines == Split(markdown, "\n")
      headers == Len(SelectSeq(t.rows, IsHeaderRow))
  IN [r \in 1..Len(t.rows) |-> IF r <= headers THEN lines[r] ELSE lines[r + 1]]

\* parseCells(line) for the line of each row
GenParseCells ==
  /\ step = "gen:parseCells"
  /\ parsed' = [r \in 1..Len(table.rows) |-> parseCells(RowLines(md, table)[r])]
  /\ step' = "gen:done"
  /\ UNCHANGED <<md, html, tableEl, table, model1, model2, ps, doc, result, page>>

NextGenerate == GenTableModelToMarkdown \/ GenParseCells

SpecGenerate == InitGenerate /\ [][NextGenerate]_vars

\* the number of '|' in s that are (escaped = TRUE) or are not (FALSE)
\* preceded by a backslash
CountPipes(s, escaped) ==
  Cardinality({i \in 1..Len(s) :
                 /\ s[i] = "|"
                 /\ (i > 1 /\ s[i - 1] = "\\") = escaped})

RECURSIVE PipesInCells(_)
PipesInCells(cells) ==
  IF cells = <<>> THEN 0
  ELSE Cardinality({i \in 1..Len(Head(cells).content) : Head(cells).content[i] = "|"})
       + PipesInCells(Tail(cells))

\* C4: for cell contents without line breaks and without leading or trailing
\* whitespace, tableModelToMarkdown renders each '|' of a content as '\|'
\* (the row's line has one backslash-pipe pair per pipe of its contents, and
\* one bare pipe per cell boundary), and parseCells on the rendered row
\* returns the original contents, at the same positions, as many as the row
\* has cells.
C4_EscapedPipesRoundTrip ==
  step = "gen:done" =>
    \A r \in 1..Len(table.rows) :
      LET cells == table.rows[r].cells
          line == RowLines(md, table)[r]
      IN /\ CountPipes(line, TRUE) = PipesInCells(cells)
         /\ CountPipes(line, FALSE) = Len(cells) + 1
         /\ Len(parsed[r]) = Len(cells)
         /\ \A i \in 1..Len(cells) : parsed[r][i] = cells[i].content

\* a header of two cells, '\|' and 'a |', padded to the width of the data
\* row, has been rendered and parsed back
C4_Witness ==
  /\ step = "gen:done"
  /\ Len(table.rows) = 2
  /\ Len(table.rows[1].cells) = 2
  /\ table.rows[1].cells[1].content = <<"\\", "|">>
  /\ table.rows[1].cells[2].content = <<"a", " ", "|">>
  /\ RowLines(md, table)[1] =
       <<"|", " ", "\\", "\\", "|", " ", " ", "|", " ", "a", " ", "\\", "|", " ", "|">>
  /\ parsed[1] = << <<"\\", "|">>, <<"a", " ", "|">> >>

----------------------------------------------------------------------------
(* htmlToMarkdown on documents with zero or more tables *)

\* the most table elements of a document, and the most rows of a table
HmTables == 2
HmRows == 2

\* one cell per row: plain, or merged across columns, rows or both
HmCellElements ==
  {CellElement(<<"a">>, colspan, rowspan, "", "") :
     colspan \in {"", "2"}, rowspan \in {"", "2"}}

HmTableElements(rows) ==
  {[trs |-> [r \in 1..Len(cells) |-> RowElement(FALSE, <<cells[r]>>)]] :
     cells \in SeqsUpTo(HmCellElements, rows)}

HmDocuments(tables, rows) ==
  {[tables |-> ts] : ts \in SeqsUpTo(HmTableElements(rows), tables)}

InitHtmlToMarkdown ==
  /\ step = "hm:htmlToMarkdown"
  /\ doc \in HmDocuments(HmTables, HmRows)
  /\ md = <<>> /\ tableEl = NoElement /\ table = NoTable
  /\ NoOutput

\* const result = htmlToMarkdown(html)
HtmlToMarkdown ==
  /\ step = "hm:htmlToMarkdown"
  /\ result' = htmlToMarkdown(doc)
  /\ step' = "hm:done"
  /\ UNCHANGED <<md, html, tableEl, table, model1, model2, ps, doc, parsed, page>>

SpecHtmlToMarkdown == InitHtmlToMarkdown /\ [][HtmlToMarkdown]_vars

\* an object { markdown, warnings }
IsConversion(v) == DOMAIN v = {"markdown", "warnings"}

\* the document has a table element, and its first one has a row
HasConvertibleTable(d) == Len(d.tables) > 0 /\ Len(d.tables[1].trs) > 0

\* how many entries of warnings are w
CountWarnings(warnings, w) ==
  Cardinality({i \in 1..Len(warnings) : warnings[i] = w})

\* how many entries of warnings are a table-count warning
CountTableCountWarnings(warnings) ==
  Cardinality({i \in 1..Len(warnings) : warnings[i].warning = "Found tables"})

\* the Markdown of the document's first table
MarkdownOfFirstTable(d) ==
  tableModelToMarkdown(htmlTableToModel(
    [trs |-> [r \in 1..Len(d.tables[1].trs) |-> SanitizeRow(d.tables[1].trs[r])]]))

\* C6: htmlToMarkdown never throws and has two outcomes: null when the
\* markup has no table element or htmlTableToModel returns null (the table
\* has no row), and otherwise an object { markdown, warnings } built from the
\* first table element.
C6_TwoOutcomes ==
  step = "hm:done" =>
    /\ ~IsThrown(result)
    /\ IF HasConvertibleTable(doc)
       THEN IsConversion(result) /\ result.markdown = MarkdownOfFirstTable(doc)
       ELSE IsNull(result)

\* C7: with n > 1 table elements the markdown is built from the first table
\* only and warnings has exactly one entry that names the count n; with
\* exactly one table warnings has no such entry.
C7_MultipleTablesWarning ==
  step = "hm:done" /\ HasConvertibleTable(doc) =>
    /\ IsConversion(result)
    /\ result.markdown = MarkdownOfFirstTable(doc)
    /\ CountTableCountWarnings(result.warnings) =
         (IF Len(doc.tables) > 1 THEN 1 ELSE 0)
    /\ Len(doc.tables) > 1 =>
         CountWarnings(result.warnings, TableCountWarning(Len(doc.tables))) = 1

\* C8: the result for a table with rows has the 'Merged cells' entry exactly
\* once if a cell of the converted table has colspan > 1 or rowspan > 1 and
\* not at all otherwise, and the markdown is returned either way.
C8_MergedCellsWarning ==
  step = "hm:done" /\ HasConvertibleTable(doc) =>
    /\ IsConversion(result)
    /\ Len(result.markdown) > 0
    /\ CountWarnings(result.warnings, MergedCellsWarning) =
         (IF HasMergedCell(doc.tables[1]) THEN 1 ELSE 0)

----------------------------------------------------------------------------
(* htmlTableToModel, one step of its loops at a time *)

\* the most cell elements of a table
SpCells == 3

SpCellElements ==
  {CellElement(<<"a">>, colspan, rowspan, "", "") :
     colspan \in {"", "2", "3"}, rowspan \in {"", "2"}}

SpTableElements(n) ==
  {[trs |-> [r \in 1..Len(rows) |-> RowElement(FALSE, rows[r])]] :
     rows \in RowsWithCells(SpCellElements, n)}

InitParser ==
  /\ step = "parser:loop"
  /\ tableEl \in SpTableElements(SpCells)
  /\ md = <<>> /\ table = NoTable /\ doc = NoDocument
  /\ NoOutput

\* the carry-over branch of the while loop
ParserCarryOver ==
  /\ step = "parser:loop"
  /\ ~ParserDone(ps, tableEl)
  /\ CarryOverOwed(ps)
  /\ ps' = CarryOverStep(ps)
  /\ UNCHANGED <<step, md, html, tableEl, table, model1, model2, doc, result, parsed, page>>

\* the rest of the while loop's body: the next cell element
ParserConsumeCell ==
  /\ step = "parser:loop"
  /\ ~ParserDone(ps, tableEl)
  /\ ~CarryOverOwed(ps)
  /\ ps.cellElIdx < Len(CellElements(tableEl, ps))
  /\ ps' = ConsumeCellStep(ps, tableEl)
  /\ UNCHANGED <<step, md, html, tableEl, table, model1, model2, doc, result, parsed, page>>

\* the while loop is over: rows.push(createRow(cells, isHeader))
ParserEndRow ==
  /\ step = "parser:loop"
  /\ ~ParserDone(ps, tableEl)
  /\ ~CarryOverOwed(ps)
  /\ ps.cellElIdx >= Len(CellElements(tableEl, ps))
  /\ ps' = EndRowStep(ps, tableEl)
  /\ UNCHANGED <<step, md, html, tableEl, table, model1, model2, doc, result, parsed, page>>

\* return null, or return normalizeTable(createTable(rows, alignments))
ParserReturn ==
  /\ step = "parser:loop"
  /\ ParserDone(ps, tableEl)
  /\ model1' = IF Len(tableEl.trs) = 0 THEN NullValue ELSE ParserResult(ps)
  /\ step' = "parser:done"
  /\ UNCHANGED <<md, html, tableEl, table, model2, ps, doc, result, parsed, page>>

NextParser == ParserCarryOver \/ ParserConsumeCell \/ ParserEndRow \/ ParserReturn

SpecParser == InitParser /\ [][NextParser]_vars

\* the steps make up the function
ParserStepsAgree ==
  step = "parser:done" => model1 = htmlTableToModel(tableEl)

\* k cells: the first has the text, the others are empty, all of them have
\* colspan 1 and rowspan 1
ExpandedCells(text, k) ==
  [c \in 1..k |-> [content |-> IF c = 1 THEN text ELSE <<>>, colspan |-> 1, rowspan |-> 1]]

IsPrefix(s, t) == Len(s) <= Len(t) /\ SubSeq(t, 1, Len(s)) = s

\* C9: every cell element whose colspan attribute is k >= 1 (absent counts
\* as 1) becomes k consecutive cells of its output row, the first with the
\* cell's text and the other k-1 empty, all with colspan 1 and rowspan 1: the
\* step that consumes a cell element appends exactly those cells, no other
\* step touches the cells already in the row, and the row pushed and the row
\* returned keep them where they are.
C9_ColspanExpansion ==
  [][/\ ps'.cellElIdx = ps.cellElIdx + 1 =>
          LET cellEl == tableEl.trs[ps.rowIdx + 1].cells[ps.cellElIdx + 1]
              k == IF cellEl.colspan = "" THEN 1 ELSE ParseInt(cellEl.colspan)
          IN ps'.cells = ps.cells \o ExpandedCells(cellEl.textContent, k)
     /\ (ps'.rowIdx = ps.rowIdx /\ ps'.cellElIdx = ps.cellElIdx) =>
          IsPrefix(ps.cells, ps'.cells)
     /\ ps'.rowIdx = ps.rowIdx + 1 =>
          /\ Len(ps'.rows) = Len(ps.rows) + 1
          /\ IsPrefix(ps.rows, ps'.rows)
          /\ IsPrefix(ps.cells, ps'.rows[Len(ps'.rows)].cells)
     /\ (step' = "parser:done" /\ ~IsNull(model1')) =>
          /\ Len(model1'.rows) = Len(ps.rows)
          /\ \A r \in 1..Len(ps.rows) : IsPrefix(ps.rows[r].cells, model1'.rows[r].cells)
    ]_vars

\* the row '<td colspan=2>a</td><td>a</td>' has given the contents a, "", a
C9_Witness ==
  /\ step = "parser:done"
  /\ tableEl = [trs |-> <<RowElement(FALSE, <<CellElement(<<"a">>, "2", "", "", ""),
                                              CellElement(<<"a">>, "", "", "", "")>>)>>]
  /\ model1.rows[1].cells = <<createCell(<<"a">>), createCell(<<>>), createCell(<<"a">>)>>

----------------------------------------------------------------------------
(* normalizeTable on tables whose cells span columns *)

\* the most cells of a table, the widest colspan, the most alignments
NCells == 3
NColspan == 2
NAlign == 3

NCellsOf(colspan) ==
  {createCellSpan(content, k, 1) : content \in {<<"a">>, <<"b">>}, k \in 1..colspan}

\* the first row is the header; the table may end with a row without cells
NRowsOf(n, colspan) ==
  {[r \in 1..Len(cells) |-> createRow(cells[r], r = 1)] \o last :
     cells \in RowsWithCells(NCellsOf(colspan), n),
     last \in {<<>>, <<createRow(<<>>, FALSE)>>}}

NTables(n, colspan, align) ==
  {createTable(rows, [i \in 1..k |-> "center"]) :
     rows \in NRowsOf(n, colspan), k \in 0..align}

InitNormalize ==
  /\ step = "normalize:normalizeTable"
  /\ table \in NTables(NCells, NColspan, NAlign)
  /\ md = <<>> /\ tableEl = NoElement /\ doc = NoDocument
  /\ NoOutput

\* normalizeTable(table): model1 is the table after the call, table keeps
\* what it was before
NormalizeTable ==
  /\ step = "normalize:normalizeTable"
  /\ model1' = normalizeTable(table)
  /\ step' = "normalize:done"
  /\ UNCHANGED <<md, html, tableEl, table, model2, ps, doc, result, parsed, page>>

SpecNormalize == InitNormalize /\ [][NormalizeTable]_vars

\* the maximum over all rows of the sum of colspans, 0 without rows
ColumnCountOf(t) ==
  LET sums == {SumColspans(t.rows[r].cells) : r \in 1..Len(t.rows)} \cup {0}
  IN CHOOSE m \in sums : \A n \in sums : n <= m

\* the cells of a row before the call are still there, in place, and every
\* cell after them is an empty cell with colspan 1 and rowspan 1
PaddedOnTheRight(before, after) ==
  /\ IsPrefix(before, after)
  /\ \A i \in (Len(before) + 1)..Len(after) :
       after[i] = [content |-> <<>>, colspan |-> 1, rowspan |-> 1]

\* C10 as stated: after normalizeTable every row has exactly columnCount
\* cells, columnCount being the maximum over all rows of the sum of colspans
\* before the call; rows are extended only with empty cells on the right and
\* the cells already present keep their content and position.
C10_ExactlyColumnCountCells ==
  step = "normalize:done" =>
    /\ Len(model1.rows) = Len(table.rows)
    /\ \A r \in 1..Len(table.rows) :
         /\ Len(model1.rows[r].cells) = ColumnCountOf(table)
         /\ PaddedOnTheRight(table.rows[r].cells, model1.rows[r].cells)

\* C10 as amended: after normalizeTable the colspans of every row sum to
\* exactly columnCount, so that a row whose cells all have colspan 1 has
\* exactly columnCount cells; rows are extended only with empty cells on the
\* right and the cells already present keep their content and position.
C10_ColspansSumToColumnCount ==
  step = "normalize:done" =>
    /\ Len(model1.rows) = Len(table.rows)
    /\ \A r \in 1..Len(table.rows) :
         LET cells == model1.rows[r].cells
         IN /\ SumColspans(cells) = ColumnCountOf(table)
            /\ (\A i \in 1..Len(cells) : cells[i].colspan = 1) =>
                 Len(cells) = ColumnCountOf(table)
            /\ PaddedOnTheRight(table.rows[r].cells, cells)

\* a row of one cell that spans two columns above a row of one plain cell:
\* the second row has been padded, the first has not
C10_Witness ==
  /\ step = "normalize:done"
  /\ Len(table.rows) = 2
  /\ table.rows[1].cells = <<createCellSpan(<<"a">>, 2, 1)>>
  /\ table.rows[2].cells = <<createCellSpan(<<"b">>, 1, 1)>>
  /\ model1.rows[1].cells = <<createCellSpan(<<"a">>, 2, 1)>>
  /\ model1.rows[2].cells = <<createCellSpan(<<"b">>, 1, 1), createCell(<<>>)>>

----------------------------------------------------------------------------
(* The tables the two parsers return *)

InitModels == InitMd \/ InitParser

NextModels == NextMd \/ NextParser

\* parseMarkdownTable on Markdown texts, htmlTableToModel on the markup
\* generated from them and on table elements with merged cells
SpecModels == InitModels /\ [][NextModels]_vars

\* all rows of t have n cells and t has n alignments
IsRectangular(t, n) ==
  /\ Len(t.alignments) = n
  /\ \A r \in 1..Len(t.rows) : Len(t.rows[r].cells) = n

\* the largest value of a non-empty set of numbers, 0 for the empty set
Largest(S) == IF S = {} THEN 0 ELSE CHOOSE m \in S : \A n \in S : n <= m

\* the most cells a row line of the text produced: every non-blank line but
\* the first separator line is a row
LargestMarkdownRow(text) ==
  LET lines == NonBlankLines(text)
      sep == CHOOSE i \in 1..Len(lines) :
               /\ PipeDelimitedSeparator(lines[i], 1)
               /\ \A j \in 1..(i - 1) : ~PipeDelimitedSeparator(lines[j], 1)
  IN Largest({Len(parseCells(lines[i])) : i \in (1..Len(lines)) \ {sep}})

\* the most cells a row element produced, before the return statement
LargestParsedRow(rows) == Largest({Len(rows[r].cells) : r \in 1..Len(rows)})

ParsedFromMarkdown ==
  step \in {"md:tableModelToHtml", "md:querySelector", "md:htmlTableToModel", "md:done"}

\* C11: every table returned by parseMarkdownTable or htmlTableToModel is
\* rectangular: all rows have the same number of cells, that number is
\* alignments.length, and it is the largest number of cells a source row
\* produced.
C11_Rectangular ==
  /\ ParsedFromMarkdown => IsRectangular(model1, LargestMarkdownRow(md))
  /\ step = "md:done" => IsRectangular(model2, LargestMarkdownRow(md))
  /\ (step = "parser:done" /\ ~IsNull(model1)) =>
       IsRectangular(model1, LargestParsedRow(ps.rows))

\* a header of two cells above a data row of one, under a separator of three
\* segments: the data row has been padded with an empty cell and the
\* alignments cut to two
C11_Witness ==
  /\ step = "md:tableModelToHtml"
  /\ md = <<"&", "|", "&", "\n", "|", "|", "|", "|", "\n", "&">>
  /\ Len(parseAlignments(<<"|", "|", "|", "|">>)) = 3
  /\ Len(model1.alignments) = 2
  /\ Len(model1.rows[1].cells) = 2
  /\ model1.rows[2].cells = <<createCell(<<"&">>), createCell(<<>>)>>

----------------------------------------------------------------------------
(* normalizeTable called again on what it returned *)

\* normalizeTable(normalizeTable(table)): the second call gets the table the
\* first one returned
NormalizeTableAgain ==
  /\ step = "normalize:done"
  /\ model2' = normalizeTable(model1)
  /\ step' = "normalize:twice"
  /\ UNCHANGED <<md, html, tableEl, table, model1, ps, doc, result, parsed, page>>

NextNormalizeTwice == NormalizeTable \/ NormalizeTableAgain

SpecNormalizeTwice == InitNormalize /\ [][NextNormalizeTwice]_vars

\* C12: normalizeTable(normalizeTable(t)) has the rows, cells and alignments
\* of normalizeTable(t): the second call appends no cell and changes no
\* alignment entry.
C12_IdempotentNormalization ==
  step = "normalize:twice" =>
    /\ model2.alignments = model1.alignments
    /\ Len(model2.rows) = Len(model1.rows)
    /\ \A r \in 1..Len(model1.rows) : model2.rows[r] = model1.rows[r]

\* the first call has padded a row and the alignments of a table with a cell
\* of colspan 2, and the second call has run
C12_Witness ==
  /\ step = "normalize:twice"
  /\ Len(table.rows) = 2
  /\ table.rows[1].cells = <<createCellSpan(<<"a">>, 2, 1)>>
  /\ table.rows[2].cells = <<>>
  /\ table.alignments = <<"center">>
  /\ model1.alignments = <<"center", "left">>
  /\ model1.rows[2].cells = <<createCell(<<>>), createCell(<<>>)>>
  /\ model2 = model1

----------------------------------------------------------------------------
(* Cell texts with line breaks, tabs and runs of spaces *)

\* the longest cell text, and the most cells of the row
WsLen == 3
WsCells == 2

WsChars == {"a", " ", "\t", "\n"}

WsTableElements(len, cells) ==
  {[trs |-> <<RowElement(FALSE, [i \in 1..Len(texts) |->
                                   CellElement(texts[i], "", "", "", "")])>>] :
     texts \in SeqsUpTo(SeqsUpTo(WsChars, len), cells) \ {<<>>}}

InitWhitespace ==
  /\ step = "ws:htmlTableToModel"
  /\ tableEl \in WsTableElements(WsLen, WsCells)
  /\ md = <<>> /\ table = NoTable /\ doc = NoDocument
  /\ NoOutput

\* const model = htmlTableToModel(tableEl)
WsHtmlTableToModel ==
  /\ step = "ws:htmlTableToModel"
  /\ model1' = htmlTableToModel(tableEl)
  /\ step' = "ws:htmlToMarkdown"
  /\ UNCHANGED <<md, html, tableEl, table, model2, ps, doc, result, parsed, page>>

\* const result = htmlToMarkdown(html), html being the markup of the table
WsHtmlToMarkdown ==
  /\ step = "ws:htmlToMarkdown"
  /\ doc' = [tables |-> <<tableEl>>]
  /\ result' = htmlToMarkdown([tables |-> <<tableEl>>])
  /\ step' = "ws:done"
  /\ UNCHANGED <<md, html, tableEl, table, model1, model2, ps, parsed, page>>

NextWhitespace == WsHtmlTableToModel \/ WsHtmlToMarkdown

SpecWhitespace == InitWhitespace /\ [][NextWhitespace]_vars

\* no line break, no tab, no two whitespace characters in a row, no
\* whitespace at either end
IsCollapsed(content) ==
  /\ \A i \in 1..Len(content) : content[i] \notin {"\t", "\n"}
  /\ \A i \in 1..(Len(content) - 1) :
       ~(content[i] \in WhiteSpace /\ content[i + 1] \in WhiteSpace)
  /\ content # <<>> => (content[1] \notin WhiteSpace /\ content[Len(content)] \notin WhiteSpace)

\* every cell content of the model is collapsed
HasCollapsedContents(m) ==
  \A r \in 1..Len(m.rows) : \A c \in 1..Len(m.rows[r].cells) :
    IsCollapsed(m.rows[r].cells[c].content)

\* one line per row of the model plus the separator, each from '|' to '|'
HasOneLinePerRow(markdown, m) ==
  LET lines == Split(markdown, "\n")
  IN /\ Len(lines) = Len(m.rows) + 1
     /\ \A i \in 1..Len(lines) :
          Len(lines[i]) >= 2 /\ lines[i][1] = "|" /\ lines[i][Len(lines[i])] = "|"

\* the first half of C13, on its own: the contents of htmlTableToModel
CollapsedByHtmlTableToModel ==
  step \in {"ws:htmlToMarkdown", "ws:done"} => HasCollapsedContents(model1)

\* the second half of C13 for tableModelToMarkdown called on the model
OneLinePerRowByTableModelToMarkdown ==
  step \in {"ws:htmlToMarkdown", "ws:done"} =>
    HasOneLinePerRow(tableModelToMarkdown(model1), model1)

\* C13: every cell content of a model of htmlTableToModel has no line break
\* or tab, no two consecutive whitespace characters and no whitespace at its
\* ends, whatever the source text; and every line of the markdown that
\* htmlToMarkdown returns starts and ends with '|', one line per row plus the
\* separator.
C13_WhitespaceCollapse ==
  /\ step \in {"ws:htmlToMarkdown", "ws:done"} => HasCollapsedContents(model1)
  /\ step = "ws:done" =>
       /\ IsConversion(result)
       /\ HasOneLinePerRow(result.markdown, model1)

----------------------------------------------------------------------------
(* htmlTableToModel on tables with and without a thead *)

\* the most rows of the table, and the most cells of a row
HdRows == 3
HdCells == 2

HdRowElements(cells) ==
  {RowElement(inThead, [i \in 1..n |-> CellElement(<<"a">>, "", "", "", "")]) :
     inThead \in BOOLEAN, n \in 1..cells}

\* some row element lies inside the thead
HasTheadRow(trs) == \E r \in 1..Len(trs) : trs[r].inThead

\* hasThead: the table has a thead element, which may hold no row at all
HdTableElements(rows, cells) ==
  {el \in [trs : SeqsUpTo(HdRowElements(cells), rows), hasThead : BOOLEAN] :
     HasTheadRow(el.trs) => el.hasThead}

InitHeader ==
  /\ step = "header:htmlTableToModel"
  /\ tableEl \in HdTableElements(HdRows, HdCells)
  /\ md = <<>> /\ table = NoTable /\ doc = NoDocument
  /\ NoOutput

\* const model = htmlTableToModel(table)
HeaderHtmlTableToModel ==
  /\ step = "header:htmlTableToModel"
  /\ model1' = htmlTableToModel(tableEl)
  /\ step' = "header:done"
  /\ UNCHANGED <<md, html, tableEl, table, model2, ps, doc, result, parsed, page>>

SpecHeader == InitHeader /\ [][HeaderHtmlTableToModel]_vars

\* the rows of the model are headers as told: those in the thead when
\* byThead is TRUE, the first row alone when it is FALSE
HeadersAre(m, el, byThead) ==
  /\ Len(m.rows) = Len(el.trs)
  /\ \A r \in 1..Len(el.trs) :
       m.rows[r].isHeader = (IF byThead THEN el.trs[r].inThead ELSE r = 1)

----------------------------------------------------------------------------
(* tableModelToMarkdown on tables with any mix of header and data rows *)

\* the most rows of the table
SepRows == 3

\* a table of one column: row r holds r letters, so that its line can be told
\* from the others
SepRowsOf(isHeader, letter) ==
  [r \in 1..Len(isHeader) |-> createRow(<<createCell(Repeat(letter, r))>>, isHeader[r])]

InitSeparator ==
  /\ step = "sep:tableModelToMarkdown"
  /\ \/ table = NullValue
     \/ \E isHeader \in SeqsUpTo(BOOLEAN, SepRows), letter \in {"x", "y"},
           align \in {"left", "center", "right"} :
          table = createTable(SepRowsOf(isHeader, letter), <<align>>)
  /\ md = <<>> /\ tableEl = NoElement /\ doc = NoDocument
  /\ NoOutput

\* const md = tableModelToMarkdown(table)
SepTableModelToMarkdown ==
  /\ step = "sep:tableModelToMarkdown"
  /\ md' = tableModelToMarkdown(table)
  /\ step' = "sep:done"
  /\ UNCHANGED <<html, tableEl, table, model1, model2, ps, doc, result, parsed, page>>

SpecSeparator == InitSeparator /\ [][SepTableModelToMarkdown]_vars

\* how many of the rows 1..r are header rows (wanted = TRUE) or are not
CountRows(rows, r, wanted) ==
  Cardinality({q \in 1..r : rows[q].isHeader = wanted})

\* the line the claim gives to row r: header rows first and in order, the
\* separator, then the other rows in order; the first row alone before the
\* separator when no row is a header
LineOfRow(rows, r) ==
  LET headers == CountRows(rows, Len(rows), TRUE)
  IN IF headers = 0 THEN (IF r = 1 THEN 1 ELSE r + 1)
     ELSE IF rows[r].isHeader THEN CountRows(rows, r, TRUE)
     ELSE headers + 1 + CountRows(rows, r, FALSE)

\* the line of the separator
LineOfSeparator(rows) ==
  LET headers == CountRows(rows, Len(rows), TRUE)
  IN IF headers = 0 THEN 2 ELSE headers + 1

IsSeparatorLine(line) ==
  /\ \A i \in 1..Len(line) : line[i] \in {"|", "-", ":"}
  /\ \E i \in 1..Len(line) : line[i] = "-"

\* C15: for a table with at least one row tableModelToMarkdown gives
\* rows.length + 1 lines: one per header row, then exactly one separator
\* line, then one per non-header row; with no header row the first row alone
\* comes before the separator; for a null table or one without rows the
\* output is the empty string.
C15_SeparatorPlacement ==
  step = "sep:done" =>
    IF IsNull(table) THEN md = <<>>
    ELSE IF Len(table.rows) = 0 THEN md = <<>>
    ELSE LET lines == Split(md, "\n")
         IN /\ Len(lines) = Len(table.rows) + 1
            /\ \A i \in 1..Len(lines) :
                 IsSeparatorLine(lines[i]) <=> i = LineOfSeparator(table.rows)
            /\ \A r \in 1..Len(table.rows) :
                 parseCells(lines[LineOfRow(table.rows, r)])[1]
                   = table.rows[r].cells[1].content

\* a data row between two header rows: both header lines come first, then
\* the separator, then the data row
C15_Witness ==
  /\ step = "sep:done"
  /\ ~IsNull(table)
  /\ Len(table.rows) = 3
  /\ table.rows[1].isHeader /\ ~table.rows[2].isHeader /\ table.rows[3].isHeader
  /\ table.alignments = <<"left">>
  /\ table.rows[1].cells[1].content = <<"x">>
  /\ Split(md, "\n") = << <<"|", " ", "x", " ", " ", " ", "|">>,
                          <<"|", " ", "x", "x", "x", " ", "|">>,
                          <<"|", "-", "-", "-", "-", "-", "|">>,
                          <<"|", " ", "x", "x", " ", " ", "|">> >>

----------------------------------------------------------------------------
(* tableModelToHtml on contents with markup characters *)

\* the longest cell content
EscLen == 4

\* the four characters that are escaped, and the letters of '&lt;'
EscChars == {"&", "<", ">", "\"", "l", "t", ";"}

\* a header cell and a data cell with the same content
EscTable(content) ==
  createTable(<<createRow(<<createCell(content)>>, TRUE),
                createRow(<<createCell(content)>>, FALSE)>>, <<"left">>)

InitEscape ==
  /\ step = "esc:tableModelToHtml"
  /\ \E content \in SeqsUpTo(EscChars, EscLen) : table = EscTable(content)
  /\ md = <<>> /\ tableEl = NoElement /\ doc = NoDocument
  /\ NoOutput

\* const html = tableModelToHtml(table)
EscTableModelToHtml ==
  /\ step = "esc:tableModelToHtml"
  /\ html' = tableModelToHtml(table)
  /\ step' = "esc:querySelector"
  /\ UNCHANGED <<md, tableEl, table, model1, model2, ps, doc, result, parsed, page>>

\* the markup parsed back into a table element
EscQuerySelector ==
  /\ step = "esc:querySelector"
  /\ tableEl' = ParseTableMarkup(html)
  /\ step' = "esc:done"
  /\ UNCHANGED <<md, html, table, model1, model2, ps, doc, result, parsed, page>>

NextEscape == EscTableModelToHtml \/ EscQuerySelector

SpecEscape == InitEscape /\ [][NextEscape]_vars

\* what one character of a content becomes in the markup
EscapedChar(c) ==
  CASE c = "&" -> <<"&", "a", "m", "p", ";">>
    [] c = "<" -> <<"&", "l", "t", ";">>
    [] c = ">" -> <<"&", "g", "t", ";">>
    [] c = "\"" -> <<"&", "q", "u", "o", "t", ";">>
    [] OTHER -> <<c>>

\* each character of the content replaced on its own, left to right
RECURSIVE EscapedOnce(_)
EscapedOnce(content) ==
  IF content = <<>> THEN <<>>
  ELSE EscapedChar(Head(content)) \o EscapedOnce(Tail(content))

\* the text emitted for the content, and the text the element has
EscapesAndDecodes(content, text, textContent) ==
  /\ text = EscapedOnce(content)
  /\ \A i \in 1..Len(text) : text[i] \notin {"<", ">", "\""}
  /\ textContent = content

\* C16: tableModelToHtml emits every cell content with each '&', '<', '>'
\* and '"' replaced by its entity, no entity escaped twice; the emitted text
\* has no raw '<', '>' or '"', and decoding the entities gives back the
\* content.
C16_HtmlEscaping ==
  step = "esc:done" =>
    LET content == table.rows[1].cells[1].content
    IN /\ EscapesAndDecodes(content, html.thead[1][1].text,
                            tableEl.trs[1].cells[1].textContent)
       /\ EscapesAndDecodes(content, html.tbody[1][1].text,
                            tableEl.trs[2].cells[1].textContent)

\* the content '&lt;' has been emitted as '&amp;lt;' and decoded back
C16_Witness ==
  /\ step = "esc:done"
  /\ table.rows[1].cells[1].content = <<"&", "l", "t", ";">>
  /\ html.tbody[1][1].text = <<"&", "a", "m", "p", ";", "l", "t", ";">>
  /\ tableEl.trs[2].cells[1].textContent = <<"&", "l", "t", ";">>

----------------------------------------------------------------------------
(* The alignments parseMarkdownTable reads from the separator line *)

\* the longest separator line
AlLen == 7

AlChars == {"|", "-", ":", " "}

\* the header lines of one, two and three columns
AlHeaders == {<<"a">>, <<"a", "|", "b">>, <<"a", "|", "b", "|", "c">>}

AlSeparatorLines(n) == {l \in SeqsUpTo(AlChars, n) : SEPARATOR_RE(l)}

InitAlign ==
  /\ step = "align:parseMarkdownTable"
  /\ \E h \in AlHeaders : \E sep \in AlSeparatorLines(AlLen) :
       md = Join(<<h, sep>>, <<"\n">>)
  /\ tableEl = NoElement /\ table = NoTable /\ doc = NoDocument
  /\ NoOutput

\* const table = parseMarkdownTable(md)
AlignParseMarkdownTable ==
  /\ step = "align:parseMarkdownTable"
  /\ model1' = parseMarkdownTable(md)
  /\ step' = "align:done"
  /\ UNCHANGED <<md, html, tableEl, table, model2, ps, doc, result, parsed, page>>

SpecAlign == InitAlign /\ [][AlignParseMarkdownTable]_vars

\* the first separator line of a text that has one
SeparatorLineOf(text) ==
  LET lines == NonBlankLines(text)
      sep == CHOOSE i \in 1..Len(lines) :
               /\ PipeDelimitedSeparator(lines[i], 1)
               /\ \A j \in 1..(i - 1) : ~PipeDelimitedSeparator(lines[j], 1)
  IN lines[sep]

\* the pipe-delimited segments of a separator line, between its first and
\* its last '|', each trimmed
SeparatorSegments(line) ==
  LET segments == Split(SubSeq(line, 2, Len(line) - 1), "|")
  IN [i \in 1..Len(segments) |-> Trim(segments[i])]

\* the alignment the claim gives to column i
AlignmentAsClaimed(segments, i) ==
  IF i > Len(segments) THEN "left"
  ELSE LET seg == segments[i]
           starts == Len(seg) > 0 /\ seg[1] = ":"
           ends == Len(seg) > 0 /\ seg[Len(seg)] = ":"
       IN IF starts /\ ends THEN "center"
          ELSE IF ends /\ ~starts THEN "right"
          ELSE "left"

\* C17: in the table of parseMarkdownTable, alignments[i] of every column i
\* is 'center' when the i-th segment of the separator line, trimmed, starts
\* and ends with ':', 'right' when it ends with ':' without starting with
\* it, and 'left' otherwise, also for a segment with a leading ':' only and
\* for a column without a segment.
C17_AlignmentDerivation ==
  (step = "align:done" /\ ~IsNull(model1)) =>
    \A i \in 1..Len(model1.alignments) :
      model1.alignments[i] = AlignmentAsClaimed(SeparatorSegments(SeparatorLineOf(md)), i)

\* three columns under the separator '|:-|-:|': left for the leading colon,
\* right for the trailing one, left for the column without a segment
C17_Witness ==
  /\ step = "align:done"
  /\ md = <<"a", "|", "b", "|", "c", "\n", "|", ":", "-", "|", "-", ":", "|">>
  /\ model1.alignments = <<"left", "right", "left">>

----------------------------------------------------------------------------
(* Rowspan carry-over in htmlTableToModel, rows of different lengths *)

\* the most rows of a table and the most cell elements of a row
RsRows == 3
RsCells == 2

RsRowspans == {"", "2", "3"}

\* the rows of at most n cell elements, the empty row among them
RsRowElements(n) ==
  UNION {{RowElement(FALSE, [c \in 1..k |-> CellElement(<<"a">>, "", rowspan[c], "", "")]) :
            rowspan \in [1..k -> RsRowspans]} : k \in 0..n}

RsTableElements(rows, n) ==
  UNION {{[trs |-> trs] : trs \in [1..k -> RsRowElements(n)]} : k \in 1..rows}

InitRowspan ==
  /\ step = "parser:loop"
  /\ tableEl \in RsTableElements(RsRows, RsCells)
  /\ md = <<>> /\ table = NoTable /\ doc = NoDocument
  /\ NoOutput

SpecRowspan == InitRowspan /\ [][NextParser]_vars

\* The row the claim describes, from column col and source cell k on. owed
\* holds, per column, the rows below that still get a filler. A column that
\* is owed gets its filler and consumes no source cell; when the source
\* cells are over, the owed columns further right get theirs too, behind
\* empty cells; gap tells that this has happened.
RECURSIVE ClaimedRow(_, _, _, _, _, _)
ClaimedRow(src, k, col, out, owed, gap) ==
  IF Remaining(owed, col) > 0
  THEN ClaimedRow(src, k, col + 1, Append(out, createCell(<<>>)),
                  SetRemaining(owed, col, Remaining(owed, col) - 1), gap)
  ELSE IF k <= Len(src)
  THEN ClaimedRow(src, k + 1, col + 1, Append(out, createCell(src[k].textContent)),
                  IF ParseInt(src[k].rowspan) > 1
                  THEN SetRemaining(owed, col, ParseInt(src[k].rowspan) - 1)
                  ELSE owed, gap)
  ELSE IF \E c \in col..(Len(owed) - 1) : Remaining(owed, c) > 0
  THEN ClaimedRow(src, k, col + 1, Append(out, createCell(<<>>)), owed, TRUE)
  ELSE [cells |-> out, owed |-> owed, gap |-> gap]

\* the rows the claim describes for the row elements from r on
RECURSIVE ClaimedRows(_, _, _)
ClaimedRows(trs, r, owed) ==
  IF r > Len(trs) THEN <<>>
  ELSE LET row == ClaimedRow(trs[r].cells, 1, 0, <<>>, owed, FALSE)
       IN <<row>> \o ClaimedRows(trs, r + 1, row.owed)

\* the cells of the rows of a table, once normalized
NormalizedCells(rowCells) ==
  LET t == normalizeTable(createTable([r \in 1..Len(rowCells) |-> createRow(rowCells[r], FALSE)],
                                      <<>>))
  IN [r \in 1..Len(t.rows) |-> t.rows[r].cells]

CarriedOverAsClaimed(el, m) ==
  LET claimed == ClaimedRows(el.trs, 1, <<>>)
  IN NormalizedCells([r \in 1..Len(m.rows) |-> m.rows[r].cells])
       = NormalizedCells([r \in 1..Len(claimed) |-> claimed[r].cells])

\* no row of the table ends before a column that is owed a filler
CellsReachOwedColumns(el) ==
  LET claimed == ClaimedRows(el.trs, 1, <<>>)
  IN \A r \in 1..Len(claimed) : ~claimed[r].gap

\* the carry-over is as claimed in the tables whose rows reach every column
\* that is owed a filler
CarryOverWhereCellsReach ==
  (step = "parser:done" /\ ~IsNull(model1) /\ CellsReachOwedColumns(tableEl)) =>
    CarriedOverAsClaimed(tableEl, model1)

\* C18: a cell element with rowspan r > 1 at output column c of row i gives
\* one empty filler cell at column c to each of the rows i+1 .. i+r-1 that
\* exist, which consumes no cell element, and no filler to any later row,
\* whatever the number of cell elements of those rows, also when they end
\* before column c.
C18_RowspanCarryOver ==
  (step = "parser:done" /\ ~IsNull(model1)) => CarriedOverAsClaimed(tableEl, model1)

----------------------------------------------------------------------------
(* The alignments htmlTableToModel takes from the first header row *)

\* the most cell elements of a table
AcCells == 3

\* cells with an align attribute, a text-align style, both or none, and
\* cells that span two columns or two rows, with an align attribute or none
AcCellElements ==
  {CellElement(<<"a">>, "", "", align, textAlign) :
     align \in {"", "center"}, textAlign \in {"", "right"}}
  \cup {CellElement(<<"a">>, span[1], span[2], align, "") :
          span \in {<<"2", "">>, <<"", "2">>}, align \in {"", "center"}}

\* the rows in document order, each in the thead or not
AcTableElements(n) ==
  {[trs |-> trs] : trs \in UNION {RtRowElements(rows) : rows \in RowsWithCells(AcCellElements, n)}}

InitCapture ==
  /\ step = "parser:loop"
  /\ tableEl \in AcTableElements(AcCells)
  /\ md = <<>> /\ table = NoTable /\ doc = NoDocument
  /\ NoOutput

SpecCapture == InitCapture /\ [][NextParser]_vars

\* the first row that is a header row, counted from 0
FirstHeaderRow(el) ==
  CHOOSE r \in 0..(Len(el.trs) - 1) :
    /\ RowIsHeader(el, r)
    /\ \A q \in 0..(r - 1) : ~RowIsHeader(el, q)

\* the align attribute if present, else the text-align style, else 'left'
AlignmentOfCell(cellEl) ==
  IF cellEl.align # "" THEN cellEl.align
  ELSE IF cellEl.textAlign # "" THEN cellEl.textAlign
  ELSE "left"

\* a step inside the first header row: the cells it appends to the row
\* have, at their columns, the alignment of the cell element they come from,
\* or 'left' when they come from no cell element
CapturedAtItsColumn ==
  (/\ step = "parser:loop" /\ ~ParserDone(ps, tableEl)
   /\ ps.rowIdx = FirstHeaderRow(tableEl)
   /\ ps'.rowIdx = ps.rowIdx) =>
    \A c \in (Len(ps.cells) + 1)..Len(ps'.cells) :
      /\ c <= Len(ps'.alignments)
      /\ ps'.alignments[c] =
           IF ps'.cellElIdx = ps.cellElIdx THEN "left"
           ELSE AlignmentOfCell(CellElements(tableEl, ps)[ps.cellElIdx + 1])

\* every other step of the loop leaves the alignments as they are
UnchangedElsewhere ==
  (/\ step = "parser:loop" /\ ~ParserDone(ps, tableEl)
   /\ (ps.rowIdx # FirstHeaderRow(tableEl) \/ ps'.rowIdx # ps.rowIdx)) =>
    ps'.alignments = ps.alignments

\* the table returned has the alignments of the loop, then 'left'
ReturnedAsCaptured ==
  (step' = "parser:done" /\ ~IsNull(model1')) =>
    \A i \in 1..Len(model1'.alignments) :
      model1'.alignments[i] = IF i <= Len(ps.alignments) THEN ps.alignments[i] ELSE "left"

\* the rows after the first header row change no alignment, and the table
\* returned has the alignments the first header row has left
NoLaterRowChangesAlignments ==
  [][UnchangedElsewhere /\ ReturnedAsCaptured]_vars

\* the cells of a first header row that is the first row of the table are
\* captured at their columns
CapturedWhenHeaderRowIsFirst ==
  [][(step = "parser:loop" /\ ~ParserDone(ps, tableEl) /\ FirstHeaderRow(tableEl) = 0)
       => CapturedAtItsColumn]_vars

\* C19: alignments[i] of htmlTableToModel comes from the first header row
\* only: it is the align attribute of the cell that occupies column i of
\* that row, else its text-align style, else 'left', a colspan cell giving
\* its alignment to each of its columns; no cell of a later row, header or
\* not, changes an entry.
C19_AlignmentCapture ==
  [][CapturedAtItsColumn /\ UnchangedElsewhere /\ ReturnedAsCaptured]_vars

----------------------------------------------------------------------------
(* The values of the alignments of both parsers *)

\* the most cell elements of the header row, the longest separator line
DmCells == 2
DmSepLen == 5

\* header cells with an align attribute and a text-align style, among them
\* values that are none of left, center and right
DmCellElements ==
  {CellElement(<<"a">>, "", "", align, textAlign) :
     align \in {"", "center", "RIGHT", "justify"}, textAlign \in {"", "left", "justify"}}

DmTableElements(n) ==
  UNION {{[trs |-> <<RowElement(FALSE, cells)>>] : cells \in [1..k -> DmCellElements]} : k \in 1..n}

InitDomain ==
  /\ \/ /\ step = "domain:parseMarkdownTable"
        /\ \E h \in AlHeaders : \E sep \in AlSeparatorLines(DmSepLen) :
             md = Join(<<h, sep>>, <<"\n">>)
        /\ tableEl = NoElement
     \/ /\ step = "domain:htmlTableToModel"
        /\ md = <<>>
        /\ tableEl \in DmTableElements(DmCells)
  /\ table = NoTable /\ doc = NoDocument
  /\ NoOutput

\* const table = parseMarkdownTable(md)
DomainParseMarkdownTable ==
  /\ step = "domain:parseMarkdownTable"
  /\ model1' = parseMarkdownTable(md)
  /\ step' = "domain:parsed"
  /\ UNCHANGED <<md, html, tableEl, table, model2, ps, doc, result, parsed, page>>

\* const model = htmlTableToModel(table)
DomainHtmlTableToModel ==
  /\ step = "domain:htmlTableToModel"
  /\ model1' = htmlTableToModel(tableEl)
  /\ step' = "domain:converted"
  /\ UNCHANGED <<md, html, tableEl, table, model2, ps, doc, result, parsed, page>>

NextDomain == DomainParseMarkdownTable \/ DomainHtmlTableToModel

SpecDomain == InitDomain /\ [][NextDomain]_vars

InAlignmentDomain(m) ==
  \A i \in 1..Len(m.alignments) : m.alignments[i] \in {"left", "center", "right"}

\* the alignments of parseMarkdownTable are in the domain
DomainOfParseMarkdownTable ==
  (step = "domain:parsed" /\ ~IsNull(model1)) => InAlignmentDomain(model1)

\* C20: every entry of the alignments of a table returned by
\* parseMarkdownTable or by htmlTableToModel is 'left', 'center' or 'right',
\* whatever the align attributes and text-align styles of the cell elements.
C20_AlignmentDomain ==
  (step \in {"domain:parsed", "domain:converted"} /\ ~IsNull(model1)) =>
    InAlignmentDomain(model1)

----------------------------------------------------------------------------
(* The widths of the lines and of the columns of tableModelToMarkdown *)

\* the most rows, the most columns, the longest content
WdRows == 2
WdCols == 2
WdLen == 4

\* letters, and a pipe before letters
WdContents(len) ==
  {Repeat("a", k) : k \in 0..len} \cup {<<"|">> \o Repeat("a", k - 1) : k \in 1..len}

\* n rows of m cells, the first h of them header rows; the cell of column i0
\* of row r0 has the content x, every other cell has 'a'
WdTable(n, m, r0, i0, x, alignments, h) ==
  createTable([r \in 1..n |->
                 createRow([i \in 1..m |->
                              createCell(IF r = r0 /\ i = i0 THEN x ELSE <<"a">>)],
                           r <= h)],
              alignments)

InitWidth ==
  /\ step = "width:tableModelToMarkdown"
  /\ \E n \in 1..WdRows : \E m \in 0..WdCols : \E r0 \in 1..n : \E i0 \in 0..m :
       \E x \in WdContents(WdLen) : \E h \in 0..n :
         \E alignments \in [1..m -> {"left", "center", "right"}] :
           table = WdTable(n, m, r0, i0, x, alignments, h)
  /\ md = <<>> /\ tableEl = NoElement /\ doc = NoDocument
  /\ NoOutput

\* const md = tableModelToMarkdown(table)
WidthTableModelToMarkdown ==
  /\ step = "width:tableModelToMarkdown"
  /\ md' = tableModelToMarkdown(table)
  /\ step' = "width:done"
  /\ UNCHANGED <<html, tableEl, table, model1, model2, ps, doc, result, parsed, page>>

SpecWidth == InitWidth /\ [][WidthTableModelToMarkdown]_vars

\* the length of a content once each of its pipes has a backslash before it
EscapedLength(content) ==
  Len(content) + Cardinality({k \in 1..Len(content) : content[k] = "|"})

\* max(3, longest escaped content of column i over all rows)
WidthAsClaimed(t, i) ==
  Largest({3} \cup {EscapedLength(t.rows[r].cells[i].content) : r \in 1..Len(t.rows)})

\* where the pipe that closes column i stands in a line; 1 for the pipe that
\* opens the line
RECURSIVE PipeAfterColumn(_, _)
PipeAfterColumn(t, i) ==
  IF i = 0 THEN 1 ELSE PipeAfterColumn(t, i - 1) + WidthAsClaimed(t, i) + 3

\* the line has a pipe after each column, none of them escaped, and ends
\* with the pipe of the last column; a line without columns is '||'
HasColumnsAsClaimed(t, line) ==
  /\ Len(line) = IF Len(t.alignments) = 0 THEN 2
                 ELSE PipeAfterColumn(t, Len(t.alignments))
  /\ \A i \in 0..Len(t.alignments) :
       /\ line[PipeAfterColumn(t, i)] = "|"
       /\ i > 0 => line[PipeAfterColumn(t, i) - 1] # "\\"

\* C21: for a table with at least one row, each of alignments.length cells,
\* all lines of tableModelToMarkdown, the separator line among them, have the
\* same length, and column i takes max(3, longest escaped content of the
\* column) + 2 characters between its pipes in every line, whatever its
\* alignment.
C21_ConsistentLineWidth ==
  step = "width:done" =>
    LET lines == Split(md, "\n")
    IN /\ Len(lines) = Len(table.rows) + 1
       /\ \A k \in 1..Len(lines) :
            /\ Len(lines[k]) = Len(lines[1])
            /\ HasColumnsAsClaimed(table, lines[k])

\* a centred and a right-aligned column; the content '|aaa' of the first
\* one is five characters long once escaped
C21_Witness ==
  /\ step = "width:done"
  /\ table = WdTable(2, 2, 2, 1, <<"|", "a", "a", "a">>, <<"center", "right">>, 1)
  /\ Split(md, "\n")[2] = <<"|", ":", "-", "-", "-", "-", "-", ":", "|",
                            "-", "-", "-", "-", ":", "|">>
  /\ Len(Split(md, "\n")[3]) = 15

----------------------------------------------------------------------------
(* The order of the rows in the output of both generators *)

\* the most rows of the table
OrdRows == 3

InitOrder ==
  /\ step = "order:tableModelToMarkdown"
  /\ \E isHeader \in SeqsUpTo(BOOLEAN, OrdRows) \ {<<>>} : \E letter \in {"x", "y"} :
       \E align \in {"left", "center", "right"} :
         table = createTable(SepRowsOf(isHeader, letter), <<align>>)
  /\ md = <<>> /\ tableEl = NoElement /\ doc = NoDocument
  /\ NoOutput

\* const md = tableModelToMarkdown(table)
OrderTableModelToMarkdown ==
  /\ step = "order:tableModelToMarkdown"
  /\ md' = tableModelToMarkdown(table)
  /\ step' = "order:tableModelToHtml"
  /\ UNCHANGED <<html, tableEl, table, model1, model2, ps, doc, result, parsed, page>>

\* const html = tableModelToHtml(table)
OrderTableModelToHtml ==
  /\ step = "order:tableModelToHtml"
  /\ html' = tableModelToHtml(table)
  /\ step' = "order:done"
  /\ UNCHANGED <<md, tableEl, table, model1, model2, ps, doc, result, parsed, page>>

NextOrder == OrderTableModelToMarkdown \/ OrderTableModelToHtml

SpecOrder == InitOrder /\ [][NextOrder]_vars

IsContentLine(line) == ~IsSeparatorLine(line)

\* the first cell of each line of the Markdown text but the separator
ContentLines(text) ==
  LET lines == SelectSeq(Split(text, "\n"), IsContentLine)
  IN [k \in 1..Len(lines) |-> parseCells(lines[k])[1]]

\* the text of the first cell of each row element, in document order
RowElementTexts(markup) ==
  LET trs == markup.thead \o markup.tbody
  IN [k \in 1..Len(trs) |-> trs[k][1].text]

\* where row r is rendered: the header rows first and in their order, then
\* the other rows in theirs
RenderedAt(rows, r) ==
  IF rows[r].isHeader THEN CountRows(rows, r, TRUE)
  ELSE CountRows(rows, Len(rows), TRUE) + CountRows(rows, r, FALSE)

----------------------------------------------------------------------------
(* The page script: the handlers of the paste and of the four buttons *)

\* the most click handlers suspended at an await
PgAwaiting == 2

\* what a paste or the keyboard can put into the input: a Markdown table,
\* a line that is none
PgTexts == {<<"a", "\n", "|", "-", "|">>, <<"a">>}

\* the text/html of a paste: none, markup without a table, a table
PgPastes ==
  {NullValue, NoDocument,
   [tables |-> <<[trs |-> <<RowElement(FALSE, <<CellElement(<<"a">>, "", "", "", "")>>)>>]>>]}

PastedWordTable ==
  <<"[", "P", "a", "s", "t", "e", "d", " ", "W", "o", "r", "d", " ",
    "t", "a", "b", "l", "e", "]">>

\* a handler at its await, with the locals it needs afterwards
Awaiting(handler, markup) == [handler |-> handler, html |-> markup]

WithoutAwaiting(pg, k) ==
  [pg EXCEPT !.awaiting = SubSeq(pg.awaiting, 1, k - 1)
                            \o SubSeq(pg.awaiting, k + 1, Len(pg.awaiting))]

\* showTextOutput, showWarnings and showToast on a result of htmlToMarkdown
ShowConversion(pg, converted, message) ==
  showToast(showWarnings(showTextOutput(pg, converted.markdown), converted.warnings),
            message, "success")

\* the paste listener; an exception of htmlToMarkdown ends it where it is
PasteListener(pg, pasted, plainText) ==
  IF ~IsNull(pasted) /\ containsTable(pasted)
  THEN LET stored == [pg EXCEPT !.lastPastedHtml = pasted]
           converted == htmlToMarkdown(pasted)
       IN IF IsThrown(converted) THEN stored
          ELSE IF ~IsNull(converted)
          THEN ShowConversion([stored EXCEPT !.inputValue = PastedWordTable], converted,
                              "Word table converted to Markdown")
          ELSE showToast([stored EXCEPT !.inputValue = plainText],
                         "Could not parse table from pasted content", "error")
  ELSE \* the browser inserts the text into the textarea
       showWarnings([pg EXCEPT !.lastPastedHtml = NullValue, !.inputValue = plainText], <<>>)

\* the click listener of toMarkdownBtn
ToMarkdownListener(pg) ==
  LET shown == showWarnings(pg, <<>>)
      text == Trim(shown.inputValue)
  IN IF ~IsNull(shown.lastPastedHtml)
     THEN LET converted == htmlToMarkdown(shown.lastPastedHtml)
          IN IF IsThrown(converted) THEN shown
             ELSE IF ~IsNull(converted)
             THEN ShowConversion(shown, converted, "Converted to Markdown")
             ELSE showToast(shown, "Could not parse table from pasted HTML", "error")
     ELSE IF Len(text) = 0
     THEN showToast(shown, "Input is empty. Paste a Word table first.", "error")
     ELSE LET converted == IF containsTable(DocumentOf(text))
                           THEN htmlToMarkdown(DocumentOf(text)) ELSE NullValue
          IN IF IsThrown(converted) THEN shown
             ELSE IF ~IsNull(converted)
             THEN ShowConversion(shown, converted, "Converted to Markdown")
             ELSE showToast(shown, "No table found. Paste a table from Word.", "error")

\* the click listener of toWordBtn up to its await
ToWordListener(pg) ==
  LET shown == showWarnings(pg, <<>>)
      text == Trim(shown.inputValue)
      markup == markdownToHtml(text)
  IN IF Len(text) = 0
     THEN showToast(shown, "Input is empty. Enter a Markdown table.", "error")
     ELSE IF IsNull(markup)
     THEN showToast(shown, "Could not parse a valid Markdown table from input.", "error")
     ELSE [shown EXCEPT !.awaiting = Append(shown.awaiting, Awaiting("toWord", markup))]

\* the click listener of toWordBtn after its await
ToWordContinuation(pg, k, success) ==
  LET shown == showPreviewOutput(WithoutAwaiting(pg, k), pg.awaiting[k].html)
  IN IF success
     THEN showToast(shown, "Table copied! Paste into Word with Ctrl+V.", "success")
     ELSE showToast(shown, "Could not auto-copy. Use the Copy button, then paste into Word.",
                    "error")

\* the click listener of copyOutputBtn up to its await
CopyOutputListener(pg) ==
  IF ~IsNull(pg.lastGeneratedHtml)
  THEN [pg EXCEPT !.awaiting = Append(pg.awaiting, Awaiting("copyHtml", pg.lastGeneratedHtml))]
  ELSE IF Len(Trim(pg.outputValue)) = 0
  THEN showToast(pg, "Nothing to copy.", "error")
  ELSE [pg EXCEPT !.awaiting = Append(pg.awaiting, Awaiting("copyText", NullValue))]

\* the click listener of copyOutputBtn after its await
CopyOutputContinuation(pg, k, success) ==
  LET resumed == WithoutAwaiting(pg, k)
  IN IF ~success THEN showToast(resumed, "Could not copy to clipboard", "error")
     ELSE IF pg.awaiting[k].handler = "copyHtml"
     THEN showToast(resumed, "Table copied! Paste into Word with Ctrl+V.", "success")
     ELSE showToast(resumed, "Output copied to clipboard", "success")

\* the click listener of clearInputBtn
ClearInputListener(pg) ==
  showWarnings([clearOutput([pg EXCEPT !.inputValue = <<>>]) EXCEPT !.lastPastedHtml = NullValue],
               <<>>)

InitPage ==
  /\ step = "page:idle"
  /\ md = <<>> /\ tableEl = NoElement /\ table = NoTable /\ doc = NoDocument
  /\ NoOutput

\* every step of the page leaves the rest alone
PageOnly == UNCHANGED <<step, md, html, tableEl, table, model1, model2, ps, doc, result, parsed>>

PagePaste ==
  /\ step = "page:idle"
  /\ \E pasted \in PgPastes : \E plainText \in PgTexts :
       page' = [PasteListener(page, pasted, plainText) EXCEPT !.cleared = FALSE]
  /\ PageOnly

PageToMarkdownClick ==
  /\ step = "page:idle"
  /\ page' = [ToMarkdownListener(page) EXCEPT !.cleared = FALSE]
  /\ PageOnly

PageToWordClick ==
  /\ step = "page:idle"
  /\ Len(ToWordListener(page).awaiting) <= PgAwaiting
  /\ page' = [ToWordListener(page) EXCEPT !.cleared = FALSE]
  /\ PageOnly

\* writeHtmlToClipboard settles, with true or with false
PageToWordResume ==
  /\ step = "page:idle"
  /\ \E k \in 1..Len(page.awaiting) : \E success \in BOOLEAN :
       /\ page.awaiting[k].handler = "toWord"
       /\ page' = ToWordContinuation(page, k, success)
  /\ PageOnly

PageCopyOutputClick ==
  /\ step = "page:idle"
  /\ Len(CopyOutputListener(page).awaiting) <= PgAwaiting
  /\ page' = CopyOutputListener(page)
  /\ PageOnly

PageCopyOutputResume ==
  /\ step = "page:idle"
  /\ \E k \in 1..Len(page.awaiting) : \E success \in BOOLEAN :
       /\ page.awaiting[k].handler \in {"copyHtml", "copyText"}
       /\ page' = CopyOutputContinuation(page, k, success)
  /\ PageOnly

PageClearInputClick ==
  /\ step = "page:idle"
  /\ page' = [ClearInputListener(page) EXCEPT !.cleared = TRUE]
  /\ PageOnly

\* the timeout of the toast: toastEl.classList.add('hidden')
PageToastTimeout ==
  /\ step = "page:idle"
  /\ page.toastTimeout
  /\ page' = [page EXCEPT !.toast.hidden = TRUE, !.toastTimeout = FALSE]
  /\ PageOnly

NextPage ==
  \/ PagePaste \/ PageToMarkdownClick
  \/ PageToWordClick \/ PageToWordResume
  \/ PageCopyOutputClick \/ PageCopyOutputResume
  \/ PageClearInputClick \/ PageToastTimeout

SpecPage == InitPage /\ [][NextPage]_vars

\* text output empty, preview hidden and empty, lastGeneratedHtml null
OutputIsCleared(pg) ==
  /\ pg.outputValue = <<>>
  /\ pg.previewHidden /\ pg.previewContent = EmptyMarkup
  /\ IsNull(pg.lastGeneratedHtml)

\* a toWordBtn handler goes on after its await
ToWordResumes ==
  \E k \in 1..Len(page.awaiting) :
    /\ page.awaiting[k].handler = "toWord"
    /\ page'.awaiting = WithoutAwaiting(page, k).awaiting

\* no other step than the continuation of a toWordBtn handler undoes a clear
ClearUndoneByNoOtherStep ==
  [][(page.cleared /\ OutputIsCleared(page) /\ page'.cleared /\ ~ToWordResumes)
       => OutputIsCleared(page')]_vars

\* C23: once the Clear handler has run, the output stays cleared until the
\* user starts another paste or conversion; a toWordBtn handler that was
\* awaiting writeHtmlToClipboard when Clear was clicked puts no output back
\* when its await completes.
C23_ClearNotUndone ==
  page.cleared => OutputIsCleared(page)

====
